---- MODULE Spec2Model ----
(***************************************************************************)
(* Model of the Comelit ICONA Bridge client                                *)
(* (custom_components/comelit_intercom/comelit_client.py).                 *)
(*                                                                         *)
(* Bytes are naturals 0..255, byte strings are sequences of bytes.  One    *)
(* client instance talks to one device over one TCP connection; every      *)
(* await of the client (a drain after a write, a read of one response) is  *)
(* one step of the model.                                                  *)
(***************************************************************************)
EXTENDS Integers, Sequences, FiniteSets, TLC

(***************************************************************************)
(* Bounds of the model.                                                    *)
(***************************************************************************)
\* number of client calls (connect/authenticate/get_config/list_doors/open_door) in a run
MaxCalls == 4

\* number of _read_response calls on the connection of the byte-level reader
MaxReads == 2

\* number of times the coordinator runs each of its two operations
MaxRuns == 1

(***************************************************************************)
(* Protocol constants.                                                     *)
(***************************************************************************)
HEADER_MAGIC == <<0, 6>>
HEADER_SIZE == 8
NULL == <<0>>

COMMAND == 43981            \* 0xABCD
END == 495                  \* 0x01EF
OPEN_DOOR_INIT == 6336      \* 0x18C0
OPEN_DOOR == 6144           \* 0x1800
OPEN_DOOR_CONFIRM == 6176   \* 0x1820

ViperChannelType_UCFG == 3

\* Channel names (class Channel)
UAUT == "UAUT"
UCFG == "UCFG"
CTPP == "CTPP"
ChannelNames == {"UAUT", "UCFG", "INFO", "CTPP", "CSPB", "PUSH"}

\* Python's None for an optional value: the empty option
None == <<>>
Some(x) == <<x>>

(***************************************************************************)
(* struct.pack / struct.unpack, little endian.                             *)
(***************************************************************************)
\* struct.pack("<H", n)
PackH(n) == <<n % 256, (n \div 256) % 256>>

\* struct.pack("<I", n)
PackI(n) == <<n % 256, (n \div 256) % 256, (n \div 65536) % 256, (n \div 16777216) % 256>>

\* struct.unpack("<H", b)[0] for a 2-byte b
UnpackH(b) == b[1] + 256 * b[2]

\* b[lo:hi] of Python (0-based, hi exclusive, clipped to the length)
Slice(b, lo, hi) ==
    LET h == IF hi < Len(b) THEN hi ELSE Len(b)
    IN  IF lo >= h THEN <<>> ELSE SubSeq(b, lo + 1, h)

\* str.encode("ascii") of the channel names
EncodeName(channel) ==
    CASE channel = "UAUT" -> <<85, 65, 85, 84>>
      [] channel = "UCFG" -> <<85, 67, 70, 71>>
      [] channel = "INFO" -> <<73, 78, 70, 79>>
      [] channel = "CTPP" -> <<67, 84, 80, 80>>
      [] channel = "CSPB" -> <<67, 83, 80, 66>>
      [] channel = "PUSH" -> <<80, 85, 83, 72>>
      [] OTHER -> <<>>

\* the channel_type table of _create_command_packet
ChannelTypeOf(channel) ==
    CASE channel = "UAUT" -> 7
      [] channel = "UCFG" -> 2
      [] channel = "INFO" -> 20
      [] channel = "CTPP" -> 16
      [] channel = "CSPB" -> 17
      [] channel = "PUSH" -> 2
      [] OTHER -> 0

(***************************************************************************)
(* Frame codec: packets the client builds.                                 *)
(***************************************************************************)
\* Mutant of create_header: the two fields change places.
create_header_swapped(body_length, request_id) ==
    HEADER_MAGIC \o PackH(request_id) \o PackH(body_length) \o <<0, 0>>

create_header(body_length, request_id) ==
    HEADER_MAGIC \o PackH(body_length) \o PackH(request_id) \o <<0, 0>>

\* json_bytes is json.dumps(data, separators=(",", ":")).encode("utf-8")
create_json_packet(request_id, json_bytes) ==
    create_header(Len(json_bytes), request_id) \o json_bytes

\* body is b"".join(buffers)
create_binary_packet_from_buffers(request_id, body) ==
    create_header(Len(body), request_id) \o body

\* Mutant of create_command_packet: the header is addressed with the request
\* id instead of 0.
create_command_packet_addressed(request_id, seq, msg_type, channel, additional_data) ==
    LET body0 == PackH(msg_type) \o PackH(seq)
        body1 == IF channel # ""
                 THEN body0 \o PackI(ChannelTypeOf(channel))
                            \o EncodeName(channel) \o NULL
                            \o PackH(request_id) \o NULL
                 ELSE body0
        body2 == IF additional_data # <<>>
                 THEN body1 \o PackI(Len(additional_data) + 1)
                            \o additional_data \o NULL
                 ELSE body1
    IN  create_header(Len(body2), request_id) \o body2

\* Mutant of create_command_packet: the channel name is prefixed by its size
\* (name, request id and terminator) and not terminated itself.
create_command_packet_size_prefixed(request_id, seq, msg_type, channel, additional_data) ==
    LET body0 == PackH(msg_type) \o PackH(seq)
        body1 == IF channel # ""
                 THEN body0 \o PackI(Len(EncodeName(channel)) + 3)
                            \o EncodeName(channel)
                            \o PackH(request_id) \o NULL
                 ELSE body0
        body2 == IF additional_data # <<>>
                 THEN body1 \o PackI(Len(additional_data) + 1)
                            \o additional_data \o NULL
                 ELSE body1
    IN  create_header(Len(body2), 0) \o body2

\* channel = "" and additional_data = <<>> stand for None (both are falsy)
create_command_packet(request_id, seq, msg_type, channel, additional_data) ==
    LET body0 == PackH(msg_type) \o PackH(seq)
        body1 == IF channel # ""
                 THEN body0 \o PackI(ChannelTypeOf(channel))
                            \o EncodeName(channel) \o NULL
                            \o PackH(request_id) \o NULL
                 ELSE body0
        body2 == IF additional_data # <<>>
                 THEN body1 \o PackI(Len(additional_data) + 1)
                            \o additional_data \o NULL
                 ELSE body1
    IN  create_header(Len(body2), 0) \o body2

\* json.dumps of the access request of authenticate
AuthJson(token) ==
    <<123, 34, 109, 101, 115, 115, 97, 103, 101, 34, 58, 34, 97, 99, 99, 101,
      115, 115, 34, 44, 34, 117, 115, 101, 114, 45, 116, 111, 107, 101, 110,
      34, 58, 34>>
    \o token \o
    <<34, 44, 34, 109, 101, 115, 115, 97, 103, 101, 45, 116, 121, 112, 101,
      34, 58, 34, 114, 101, 113, 117, 101, 115, 116, 34, 44, 34, 109, 101,
      115, 115, 97, 103, 101, 45, 105, 100, 34, 58, 50, 125>>

\* json.dumps of the get-configuration request of get_config
ConfigJson(addressbooks) ==
    <<123, 34, 109, 101, 115, 115, 97, 103, 101, 34, 58, 34, 103, 101, 116,
      45, 99, 111, 110, 102, 105, 103, 117, 114, 97, 116, 105, 111, 110, 34,
      44, 34, 97, 100, 100, 114, 101, 115, 115, 98, 111, 111, 107, 115, 34,
      58, 34>>
    \o addressbooks \o
    <<34, 44, 34, 109, 101, 115, 115, 97, 103, 101, 45, 116, 121, 112, 101,
      34, 58, 34, 114, 101, 113, 117, 101, 115, 116, 34, 44, 34, 109, 101,
      115, 115, 97, 103, 101, 45, 105, 100, 34, 58>>
    \o <<48 + ViperChannelType_UCFG>> \o <<125>>

(***************************************************************************)
(* json.loads on compact JSON text: objects, arrays, strings without       *)
(* escapes and non-negative integers.  A value is a record                 *)
(*   [t |-> "int", n], [t |-> "str", s], [t |-> "arr", items] or           *)
(*   [t |-> "obj", members] with members a sequence of [k, v].             *)
(* A parse result is [ok, val, next]; next is the index after the value.   *)
(* Text outside this subset (whitespace, escapes, non-ASCII, other number  *)
(* forms, literals) is not among the bodies the model's device sends.       *)
(***************************************************************************)
RECURSIVE ParseValue(_, _), ParseMembers(_, _, _), ParseItems(_, _, _),
          ParseDigits(_, _, _), StringEnd(_, _)

\* no value (Python's None where a decoded value is expected)
JNone == [t |-> "none"]

ParseFail == [ok |-> FALSE, val |-> JNone, next |-> 0]

\* index of the closing quote of the string whose body starts at i, or 0
StringEnd(s, i) ==
    IF i > Len(s) THEN 0
    ELSE IF s[i] = 34 THEN i
    ELSE IF s[i] = 92 \/ s[i] < 32 \/ s[i] > 127 THEN 0
    ELSE StringEnd(s, i + 1)

ParseString(s, i) ==
    IF i > Len(s) \/ s[i] # 34 THEN ParseFail
    ELSE LET j == StringEnd(s, i + 1)
         IN  IF j = 0 THEN ParseFail
             ELSE [ok |-> TRUE,
                   val |-> [t |-> "str", s |-> SubSeq(s, i + 1, j - 1)],
                   next |-> j + 1]

ParseDigits(s, i, acc) ==
    IF i <= Len(s) /\ s[i] \in 48..57
    THEN ParseDigits(s, i + 1, 10 * acc + (s[i] - 48))
    ELSE [ok |-> TRUE, val |-> [t |-> "int", n |-> acc], next |-> i]

ParseInt(s, i) ==
    IF i > Len(s) \/ s[i] \notin 48..57 THEN ParseFail
    ELSE IF s[i] = 48
         THEN [ok |-> TRUE, val |-> [t |-> "int", n |-> 0], next |-> i + 1]
         ELSE ParseDigits(s, i, 0)

\* members after "{" or ",": "key":value, then "," or "}"
ParseMembers(s, i, acc) ==
    LET k == ParseString(s, i)
    IN  IF ~k.ok \/ k.next > Len(s) \/ s[k.next] # 58 THEN ParseFail
        ELSE LET v == ParseValue(s, k.next + 1)
                 m == Append(acc, [k |-> k.val.s, v |-> v.val])
             IN  IF ~v.ok \/ v.next > Len(s) THEN ParseFail
                 ELSE IF s[v.next] = 44 THEN ParseMembers(s, v.next + 1, m)
                 ELSE IF s[v.next] = 125
                      THEN [ok |-> TRUE,
                            val |-> [t |-> "obj", members |-> m],
                            next |-> v.next + 1]
                      ELSE ParseFail

\* items after "[" or ",": value, then "," or "]"
ParseItems(s, i, acc) ==
    LET v == ParseValue(s, i)
        m == Append(acc, v.val)
    IN  IF ~v.ok \/ v.next > Len(s) THEN ParseFail
        ELSE IF s[v.next] = 44 THEN ParseItems(s, v.next + 1, m)
        ELSE IF s[v.next] = 93
             THEN [ok |-> TRUE, val |-> [t |-> "arr", items |-> m],
                   next |-> v.next + 1]
             ELSE ParseFail

ParseValue(s, i) ==
    IF i > Len(s) THEN ParseFail
    ELSE IF s[i] = 123
         THEN IF i < Len(s) /\ s[i + 1] = 125
              THEN [ok |-> TRUE, val |-> [t |-> "obj", members |-> <<>>],
                    next |-> i + 2]
              ELSE ParseMembers(s, i + 1, <<>>)
    ELSE IF s[i] = 91
         THEN IF i < Len(s) /\ s[i + 1] = 93
              THEN [ok |-> TRUE, val |-> [t |-> "arr", items |-> <<>>],
                    next |-> i + 2]
              ELSE ParseItems(s, i + 1, <<>>)
    ELSE IF s[i] = 34 THEN ParseString(s, i)
    ELSE ParseInt(s, i)

\* json.loads(body.decode("utf-8")): the whole text must be one value
JsonLoads(body) ==
    LET r == ParseValue(body, 1)
    IN  IF r.ok /\ r.next = Len(body) + 1 THEN r ELSE ParseFail

\* dict.get(key, default) on a decoded object: the last member named key wins
RECURSIVE DictGetFrom(_, _, _, _)
DictGetFrom(members, key, default, i) ==
    IF i = 0 THEN default
    ELSE IF members[i].k = key THEN members[i].v
    ELSE DictGetFrom(members, key, default, i - 1)

DictGet(obj, key, default) == DictGetFrom(obj.members, key, default, Len(obj.members))

\* key in dict
DictHas(obj, key) == \E i \in 1..Len(obj.members) : obj.members[i].k = key

(***************************************************************************)
(* Response classifier: _read_response applied to the bytes the peer sends *)
(* before it stops (a whole frame, or a frame cut short by the peer        *)
(* closing the connection).                                                *)
(***************************************************************************)
NoResponse ==
    [type |-> "none", message_type |-> 0, sequence |-> 0,
     has_channel_id |-> FALSE, channel_id |-> None, request_id |-> 0,
     data |-> JNone, error |-> ""]

ErrorResponse(e) == [NoResponse EXCEPT !.type = "error", !.error = e]

\* a classifier that looks at the request id alone
ClassifyBodyOpaque(request_id, body) ==
    IF request_id = 0 THEN NoResponse
    ELSE [NoResponse EXCEPT !.type = "binary_data",
                            !.request_id = request_id,
                            !.data = [t |-> "bytes", b |-> body]]

ClassifyBody(request_id, body) ==
    IF request_id = 0
    THEN IF Len(Slice(body, 0, 2)) < 2 \/ Len(Slice(body, 2, 4)) < 2
         THEN ErrorResponse("struct.error")
         ELSE LET msg_type == UnpackH(Slice(body, 0, 2))
                  sequence == UnpackH(Slice(body, 2, 4))
              IN  IF msg_type = COMMAND
                  THEN [NoResponse EXCEPT
                          !.type = "binary",
                          !.message_type = msg_type,
                          !.sequence = sequence,
                          !.has_channel_id = TRUE,
                          !.channel_id = IF Len(body) >= 10
                                         THEN Some(UnpackH(Slice(body, 8, 10)))
                                         ELSE None]
                  ELSE IF msg_type = END
                  THEN [NoResponse EXCEPT
                          !.type = "binary",
                          !.message_type = msg_type,
                          !.sequence = sequence]
                  ELSE NoResponse
    ELSE IF body[1] = 123
         THEN LET j == JsonLoads(body)
              IN  IF j.ok
                  THEN [NoResponse EXCEPT !.type = "json",
                                          !.request_id = request_id,
                                          !.data = j.val]
                  ELSE ErrorResponse("JSONDecodeError")
         ELSE [NoResponse EXCEPT !.type = "binary_data",
                                 !.request_id = request_id,
                                 !.data = [t |-> "bytes", b |-> body]]

read_response(stream) ==
    IF Len(stream) < HEADER_SIZE THEN ErrorResponse("IncompleteReadError")
    ELSE LET header == SubSeq(stream, 1, HEADER_SIZE)
             body_length == UnpackH(Slice(header, 2, 4))
             request_id == UnpackH(Slice(header, 4, 6))
         IN  IF body_length > 0
             THEN IF Len(stream) - HEADER_SIZE < body_length
                  THEN ErrorResponse("IncompleteReadError")
                  ELSE ClassifyBody(request_id,
                           SubSeq(stream, HEADER_SIZE + 1, HEADER_SIZE + body_length))
             ELSE NoResponse

\* truth value of response["channel_id"]: None and 0 are falsy
Truthy(opt) == opt # None /\ opt[1] # 0

(***************************************************************************)
(* The device side: what the peer may send in answer to a read.            *)
(***************************************************************************)
\* a frame as the device builds it (header + body)
DeviceFrame(request_id, body) == create_header(Len(body), request_id) \o body

\* channel ids the device may assign in an open acknowledgment
ServerChannelIds == {0, 258}

JsonBodies ==
    { <<123, 34, 114, 101, 115, 112, 111, 110, 115, 101, 45, 99, 111, 100,
        101, 34, 58, 50, 48, 48, 125>>,           \* {"response-code":200}
      <<123, 34, 114, 101, 115, 112, 111, 110, 115, 101, 45, 99, 111, 100,
        101, 34, 58, 52, 48, 51, 125>>,           \* {"response-code":403}
      <<123, 34, 97, 34, 58, 49, 125>>,           \* {"a":1}
      <<123, 120>> }                              \* {x   (not JSON)

\* configurations the device may answer a get-configuration request with:
\* the address book of two doors, and objects from which a segment is absent
ConfigBodies ==
    {
      \* {"vip":{"user-parameters":{"opendoor-address-book":[{"name":"A"},{"name":"B"}]}}}
      <<123, 34, 118, 105, 112, 34, 58, 123, 34, 117, 115, 101, 114, 45, 112,
        97, 114, 97, 109, 101, 116, 101, 114, 115, 34, 58, 123, 34, 111, 112,
        101, 110, 100, 111, 111, 114, 45, 97, 100, 100, 114, 101, 115, 115,
        45, 98, 111, 111, 107, 34, 58, 91, 123, 34, 110, 97, 109, 101, 34,
        58, 34, 65, 34, 125, 44, 123, 34, 110, 97, 109, 101, 34, 58, 34, 66,
        34, 125, 93, 125, 125, 125>>,
      \* {"vip":{"user-parameters":{}}}
      <<123, 34, 118, 105, 112, 34, 58, 123, 34, 117, 115, 101, 114, 45, 112,
        97, 114, 97, 109, 101, 116, 101, 114, 115, 34, 58, 123, 125, 125,
        125>>,
      \* {"vip":{}}
      <<123, 34, 118, 105, 112, 34, 58, 123, 125, 125>>,
      \* {}
      <<123, 125>> }

WholeFrames ==
    { DeviceFrame(0, PackH(COMMAND) \o PackH(2) \o PackI(0) \o PackH(c)) :
          c \in ServerChannelIds }
    \cup { DeviceFrame(0, PackH(COMMAND) \o PackH(2)),
           DeviceFrame(0, PackH(COMMAND) \o PackH(3)),
           DeviceFrame(0, PackH(END) \o PackH(2)),
           DeviceFrame(0, PackH(END) \o PackH(3)),
           DeviceFrame(0, PackH(OPEN_DOOR) \o PackH(2)),
           DeviceFrame(0, <<205, 171, 2>>),
           DeviceFrame(0, <<>>),
           DeviceFrame(258, <<1, 2>>) }
    \cup { DeviceFrame(258, b) : b \in JsonBodies \cup ConfigBodies }

\* the peer closes the connection in the middle of a header or of a body
CutFrames ==
    { SubSeq(DeviceFrame(0, PackH(END) \o PackH(3)), 1, 5),
      SubSeq(DeviceFrame(0, PackH(END) \o PackH(3)), 1, 10) }

Streams == WholeFrames \cup CutFrames

(***************************************************************************)
(* The reference mock server (tests/mock-comelit-server.py): what it makes *)
(* of one frame of the client.  channels and sequence_counters are its     *)
(* dictionaries, keyed by the request_id of the frame's header.            *)
(***************************************************************************)
\* struct.unpack("<I", b)[0] for a 4-byte b
UnpackI(b) == b[1] + 256 * b[2] + 65536 * b[3] + 16777216 * b[4]

\* self.mock_token
mock_token ==
    <<57, 57, 52, 51, 97, 56, 53, 51, 54, 50, 52, 54, 55, 99, 53, 51, 53, 56,
      54, 101, 51, 53, 53, 51, 100, 51, 52, 102, 56, 97, 56, 100>>

\* json.dumps of the two answers to an access request
AccessGranted ==
    <<123, 34, 114, 101, 115, 112, 111, 110, 115, 101, 45, 99, 111, 100, 101,
      34, 58, 50, 48, 48, 44, 34, 109, 101, 115, 115, 97, 103, 101, 45, 116,
      121, 112, 101, 34, 58, 34, 114, 101, 115, 112, 111, 110, 115, 101, 34,
      125>>

AccessDenied ==
    <<123, 34, 114, 101, 115, 112, 111, 110, 115, 101, 45, 99, 111, 100, 101,
      34, 58, 52, 48, 49, 44, 34, 109, 101, 115, 115, 97, 103, 101, 45, 116,
      121, 112, 101, 34, 58, 34, 114, 101, 115, 112, 111, 110, 115, 101, 34,
      125>>

\* json.dumps of self.mock_config with its message-type
mock_config ==
    <<123, 34, 118, 105, 112, 34, 58, 123, 34, 97, 112, 116, 45, 97, 100,
      100, 114, 101, 115, 115, 34, 58, 34, 49, 48, 48, 34, 44, 34, 97, 112,
      116, 45, 115, 117, 98, 97, 100, 100, 114, 101, 115, 115, 34, 58, 34,
      49, 34, 44, 34, 117, 115, 101, 114, 45, 112, 97, 114, 97, 109, 101,
      116, 101, 114, 115, 34, 58, 123, 34, 111, 112, 101, 110, 100, 111, 111,
      114, 45, 97, 100, 100, 114, 101, 115, 115, 45, 98, 111, 111, 107, 34,
      58, 91, 123, 34, 110, 97, 109, 101, 34, 58, 34, 70, 114, 111, 110, 116,
      32, 68, 111, 111, 114, 34, 44, 34, 97, 112, 116, 45, 97, 100, 100, 114,
      101, 115, 115, 34, 58, 34, 49, 48, 48, 34, 44, 34, 111, 117, 116, 112,
      117, 116, 45, 105, 110, 100, 101, 120, 34, 58, 34, 49, 34, 125, 44,
      123, 34, 110, 97, 109, 101, 34, 58, 34, 71, 97, 114, 97, 103, 101, 34,
      44, 34, 97, 112, 116, 45, 97, 100, 100, 114, 101, 115, 115, 34, 58, 34,
      49, 48, 48, 34, 44, 34, 111, 117, 116, 112, 117, 116, 45, 105, 110,
      100, 101, 120, 34, 58, 34, 50, 34, 125, 93, 125, 125, 44, 34, 109, 101,
      115, 115, 97, 103, 101, 45, 116, 121, 112, 101, 34, 58, 34, 114, 101,
      115, 112, 111, 110, 115, 101, 34, 125>>

ServerInfo ==
    <<123, 34, 115, 101, 114, 118, 101, 114, 45, 118, 101, 114, 115, 105,
      111, 110, 34, 58, 34, 49, 46, 48, 46, 48, 34, 44, 34, 109, 101, 115,
      115, 97, 103, 101, 45, 116, 121, 112, 101, 34, 58, 34, 114, 101, 115,
      112, 111, 110, 115, 101, 34, 125>>

UnknownMessage ==
    <<123, 34, 101, 114, 114, 111, 114, 34, 58, 34, 85, 110, 107, 110, 111,
      119, 110, 32, 109, 101, 115, 115, 97, 103, 101, 32, 116, 121, 112, 101,
      34, 44, 34, 109, 101, 115, 115, 97, 103, 101, 45, 116, 121, 112, 101,
      34, 58, 34, 114, 101, 115, 112, 111, 110, 115, 101, 34, 125>>

KeyMessage == <<109, 101, 115, 115, 97, 103, 101>>

KeyUserToken == <<117, 115, 101, 114, 45, 116, 111, 107, 101, 110>>

StrVal(s) == [t |-> "str", s |-> s]

\* what process_message hands back: the bytes to write (none when empty), the
\* dictionaries afterwards, and whether an exception left it
MockResult(response, channels, sequence_counters) ==
    [response |-> response, channels |-> channels,
     sequence_counters |-> sequence_counters, crashed |-> FALSE]

\* dict.pop(key)
Without(d, key) == [k \in DOMAIN d \ {key} |-> d[k]]

\* Mutant of token_accepted: any request that carries a token is let in.
token_present(data) == DictHas(data, KeyUserToken)

\* token == self.mock_token for the token of the access request data
token_accepted(data) == DictGet(data, KeyUserToken, JNone) = StrVal(mock_token)

\* the answer of process_json_message once json.loads gave j
json_response(channels, sequence_counters, request_id, j) ==
    LET message_type == DictGet(j.val, KeyMessage, JNone)
        response_data ==
            IF message_type = StrVal(<<97, 99, 99, 101, 115, 115>>)
            THEN IF token_accepted(j.val)
                 THEN AccessGranted
                 ELSE AccessDenied
            ELSE IF message_type = StrVal(<<103, 101, 116, 45, 99, 111, 110, 102,
                                            105, 103, 117, 114, 97, 116, 105, 111, 110>>)
            THEN mock_config
            ELSE IF message_type = StrVal(<<115, 101, 114, 118, 101, 114, 45,
                                            105, 110, 102, 111>>)
            THEN ServerInfo
            ELSE UnknownMessage
    IN  IF j.ok /\ j.val.t = "obj"
        THEN MockResult(create_header(Len(response_data), request_id) \o response_data,
                        channels, sequence_counters)
        ELSE MockResult(<<>>, channels, sequence_counters)

process_json_message(channels, sequence_counters, request_id, body) ==
    json_response(channels, sequence_counters, request_id, JsonLoads(body))

\* message types the mock acknowledges as door operations
DoorOperations == {OPEN_DOOR_INIT, OPEN_DOOR, OPEN_DOOR_CONFIRM, 49176}

process_binary_message(channels, sequence_counters, request_id, body) ==
    IF Len(body) < 4 THEN MockResult(<<>>, channels, sequence_counters)
    ELSE
    LET msg_type == UnpackH(Slice(body, 0, 2))
        sequence == UnpackH(Slice(body, 2, 4))
    IN  IF msg_type = COMMAND
        THEN IF Len(body) > 8 /\ Len(body) >= 8 + UnpackI(Slice(body, 4, 8))
             THEN LET channel_size == UnpackI(Slice(body, 4, 8))
                      channel_name == Slice(body, 8, 8 + channel_size - 3)
                  IN  IF \E i \in 1..Len(channel_name) : channel_name[i] > 127
                      THEN \* decode('ascii') raises: the handler ends
                           [MockResult(<<>>, channels, sequence_counters)
                               EXCEPT !.crashed = TRUE]
                      ELSE MockResult(
                               create_header(4, 0) \o PackH(COMMAND) \o PackH(2),
                               (request_id :> channel_name) @@ channels,
                               (request_id :> 2) @@ sequence_counters)
             ELSE MockResult(<<>>, channels, sequence_counters)
        ELSE IF msg_type = END
        THEN IF request_id \in DOMAIN channels
             THEN LET seq == (IF request_id \in DOMAIN sequence_counters
                              THEN sequence_counters[request_id]
                              ELSE sequence) + 1
                  IN  MockResult(create_header(4, 0) \o PackH(END) \o PackH(seq),
                                 Without(channels, request_id),
                                 Without(sequence_counters, request_id))
             ELSE MockResult(<<>>, channels, sequence_counters)
        ELSE IF msg_type \in DoorOperations
        THEN MockResult(create_header(4, request_id) \o PackH(msg_type)
                            \o PackH(sequence),
                        channels, sequence_counters)
        ELSE MockResult(<<>>, channels, sequence_counters)

process_message(channels, sequence_counters, request_id, body) ==
    IF body = <<>> THEN MockResult(<<>>, channels, sequence_counters)
    ELSE IF body[1] = 123
    THEN process_json_message(channels, sequence_counters, request_id, body)
    ELSE process_binary_message(channels, sequence_counters, request_id, body)

\* the server after process_message gave r: a response that is not empty is
\* written, an exception closes the connection
Served(m, r) ==
    [m EXCEPT !.channels = r.channels,
              !.sequence_counters = r.sequence_counters,
              !.outbox = IF r.response # <<>> THEN Append(@, r.response) ELSE @,
              !.closed = r.crashed]

\* one round of handle_client on the frame the client wrote; m is the state
\* of the server: its dictionaries, the frames it wrote that the client has
\* not read yet, and whether its handler has closed the connection
handle_client(m, frame) ==
    Served(m, process_message(m.channels, m.sequence_counters,
                              UnpackH(Slice(frame, 4, 6)),
                              Slice(frame, 8, 8 + UnpackH(Slice(frame, 2, 4)))))

(***************************************************************************)
(* Inputs of the operations.                                               *)
(***************************************************************************)
\* user tokens (hex text); one of them is the token the mock server accepts
Tokens == { <<57, 57>>, <<48, 48>>, mock_token }

\* the vip record of the configuration: apt-address "100", apt-subaddress "1"
TheVip == [apt_address |-> <<49, 48, 48>>, apt_subaddress |-> <<49>>]

\* door items of the address book: output-index 1 and 256
Doors ==
    { [apt_address |-> <<49, 48, 48>>, output_index |-> 1],
      [apt_address |-> <<49, 48, 48>>, output_index |-> 256] }

\* values of 8000 + int(loop.time() * 10) % 1000 used in the model
StartIds == {8000, 8999}

(***************************************************************************)
(* Packets of the door handshake.                                          *)
(***************************************************************************)
\* str(n) for a natural n, as ASCII digits
RECURSIVE DecStr(_)
DecStr(n) == IF n < 10 THEN <<48 + n>> ELSE DecStr(n \div 10) \o <<48 + (n % 10)>>

\* _string_to_buffer(s, null_terminated)
string_to_buffer(s, null_terminated) == IF null_terminated THEN s \o NULL ELSE s

\* f"{vip['apt-address']}{vip.get('apt-subaddress', '')}"
AptAddress(vip) == vip.apt_address \o vip.apt_subaddress

\* body of the channel init packet of _open_door_init
InitBody(vip) ==
    <<192, 24, 92, 139>> \o <<43, 115, 0, 17>> \o <<0, 64, 172, 35>>
    \o string_to_buffer(AptAddress(vip), TRUE)
    \o <<16, 14>> \o <<0, 0, 0, 0>> \o <<255, 255, 255, 255>>
    \o string_to_buffer(AptAddress(vip), TRUE)
    \o string_to_buffer(vip.apt_address, TRUE)
    \o NULL

\* Mutant of create_door_message: the confirm flag is ignored, every door
\* message is an OPEN_DOOR.
create_door_message_unconfirmed(channel_id, vip, door_item, confirm) ==
    create_binary_packet_from_buffers(channel_id,
        PackH(OPEN_DOOR)
        \o <<92, 139>> \o <<44, 116, 0, 0>> \o <<255, 255, 255, 255>>
        \o string_to_buffer(vip.apt_address \o DecStr(door_item.output_index), TRUE)
        \o string_to_buffer(door_item.apt_address, TRUE)
        \o NULL)

\* create_door_message(confirm) of open_door
create_door_message(channel_id, vip, door_item, confirm) ==
    create_binary_packet_from_buffers(channel_id,
        PackH(IF confirm THEN OPEN_DOOR_CONFIRM ELSE OPEN_DOOR)
        \o <<92, 139>> \o <<44, 116, 0, 0>> \o <<255, 255, 255, 255>>
        \o string_to_buffer(vip.apt_address \o DecStr(door_item.output_index), TRUE)
        \o string_to_buffer(door_item.apt_address, TRUE)
        \o NULL)

\* bytes([n]) raises ValueError unless 0 <= n <= 255
BytesOk(n) == n \in 0..255

\* body of the door-specific init packet of open_door
DoorInitBody(vip, door_item) ==
    <<192, 24, 112, 171>> \o <<41, 159, 0, 13>> \o <<0, 45>>
    \o string_to_buffer(door_item.apt_address, TRUE)
    \o NULL
    \o <<door_item.output_index, 0, 0, 0>>
    \o <<255, 255, 255, 255>>
    \o string_to_buffer(vip.apt_address \o DecStr(door_item.output_index), TRUE)
    \o string_to_buffer(door_item.apt_address, TRUE)
    \o NULL

(***************************************************************************)
(* State.                                                                  *)
(***************************************************************************)
VARIABLES
    connected,      \* self.writer is an open connection
    link,           \* the peer: "up", "silent" (sends nothing, connection
                    \* open) or "down" (connection closed or reset)
    open_channels,  \* self.open_channels: channel name -> ChannelData
    request_id,     \* self.request_id
    pc,             \* position of the running operation, "idle" if none
    op,             \* the operation called last
    arg,            \* its argument (token or door item)
    channel,        \* the ChannelData the operation works with
    ack,            \* the response read by _open_channel
    response,       \* the response read by authenticate / get_config
    retval,         \* the value the operation returns
    outcome,        \* "running", "returned" or "raised"
    io,             \* writes and reads of the operation, in order
    calls,          \* number of calls made so far
    opened,         \* the operation holds a registered channel
    close_invoked,  \* the operation has called _close_channel
    close_result,   \* what _close_channel returned
    mock,           \* the mock server, when the peer is the mock server
    codec,          \* one header taken through _create_header and back
    reader,         \* _read_response over the bytes of one connection
    coordinator     \* the coordinator's two operations, each with its client

vars == <<connected, link, open_channels, request_id, pc, op, arg, channel,
          ack, response, retval, outcome, io, calls, opened, close_invoked,
          close_result, mock, codec, reader, coordinator>>

\* the client and its peer
ClientVars == <<connected, link, open_channels, request_id, pc, op, arg,
                channel, ack, response, retval, outcome, io, calls, opened,
                close_invoked, close_result, mock>>

NoChannels == [n \in {} |-> JNone]

\* no ChannelData yet
NoChannel == [channel |-> "", id |-> 0, sequence |-> 0]

\* an exception as the outcome of an operation
Exc(e) == [t |-> "exc", e |-> e]

IntVal(n) == [t |-> "int", n |-> n]

\* b"response-code"
KeyResponseCode == <<114, 101, 115, 112, 111, 110, 115, 101, 45, 99, 111, 100, 101>>

\* the mock server after __init__; running tells whether the peer of the
\* client is the mock server
MockServer(running) ==
    [running |-> running, channels |-> <<>>, sequence_counters |-> <<>>,
     outbox |-> <<>>, closed |-> FALSE]

\* no header under way
NoCodec == [stage |-> "none", body_length |-> 0, request_id |-> 0,
            header |-> <<>>, decoded |-> <<>>]

\* no connection read at the level of bytes
NoReader ==
    [stream |-> <<>>, starts |-> {}, arrived |-> 0, closed |-> FALSE,
     consumed |-> 0, at |-> "idle", timed |-> FALSE, start |-> 0,
     body_length |-> 0, request_id |-> 0, outcome |-> "none",
     result |-> NoResponse, reads |-> 0]

\* the coordinator's operations
Tasks == {"update", "door"}

\* the module-level functions list_doors and open_door
Functions == {"list_doors", "open_door"}

\* the coordinator after __init__: no operation running, no client created
NoCoordinator ==
    [task |-> [t \in Tasks \cup Functions |->
                  [pc |-> "idle", client |-> 0, run |-> 0,
                   auth_code |-> 0, wrote |-> {}, raised |-> FALSE]],
     clients |-> <<>>, carried |-> <<>>,
     vip_config |-> FALSE, data |-> FALSE, last |-> "none"]

\* the client after __init__, not connected
ClientInit ==
    /\ connected = FALSE
    /\ link = "down"
    /\ open_channels = NoChannels
    /\ pc = "idle"
    /\ op = "none"
    /\ arg = JNone
    /\ channel = NoChannel
    /\ ack = NoResponse
    /\ response = NoResponse
    /\ retval = JNone
    /\ outcome = "returned"
    /\ io = <<>>
    /\ calls = 0
    /\ opened = FALSE
    /\ close_invoked = FALSE
    /\ close_result = FALSE

Init ==
    /\ ClientInit
    /\ request_id \in StartIds
    /\ mock = MockServer(FALSE)
    /\ codec = NoCodec
    /\ reader = NoReader
    /\ coordinator = NoCoordinator

(***************************************************************************)
(* Building blocks of the actions.                                         *)
(***************************************************************************)
\* Entries of io.  A write (write + drain) can fail only on a connection that
\* is down, and may still go out on it; a read without deadline blocks while
\* the peer is silent; a read under wait_for times out unless the connection
\* is down.
Wrote(at, packet) == [dir |-> "w", at |-> at, res |-> "ok", packet |-> packet]
WriteFailed(at) == [dir |-> "w", at |-> at, res |-> "fail", packet |-> <<>>]
DidRead(at, res) == [dir |-> "r", at |-> at, res |-> res, packet |-> <<>>]

\* what a read may find on the stream: any frame of the device, or the
\* oldest frame the mock server wrote; the end of the stream once the
\* connection is down or closed by the mock server
ReadInputs ==
    IF mock.running
    THEN IF link = "down" THEN {<<>>}
         ELSE IF mock.outbox # <<>> THEN {Head(mock.outbox)}
         ELSE IF mock.closed THEN {<<>>}
         ELSE {}
    ELSE IF link = "up" THEN Streams
    ELSE IF link = "down" THEN {<<>>}
    ELSE {}

\* the link after a read that returned r
LinkAfter(r) == IF r.error = "IncompleteReadError" THEN "down" ELSE link

\* a read returned r: the frame is consumed
Received(r) ==
    /\ link' = LinkAfter(r)
    /\ mock' = IF mock.running /\ link # "down" /\ mock.outbox # <<>>
               THEN [mock EXCEPT !.outbox = Tail(@)]
               ELSE mock

\* a packet goes out at position at; the mock server answers it
Write(at, packet) ==
    /\ io' = Append(io, Wrote(at, packet))
    /\ mock' = IF mock.running /\ link = "up" /\ ~mock.closed
               THEN handle_client(mock, packet)
               ELSE mock

\* write or drain raise at position at
FailWrite(at) ==
    /\ link = "down" \/ mock.closed
    /\ io' = Append(io, WriteFailed(at))
    /\ mock' = mock

\* a call starts: the locals of the previous call are gone
Begin(o, a) ==
    /\ pc = "idle"
    /\ calls < MaxCalls
    /\ calls' = calls + 1
    /\ op' = o
    /\ arg' = a
    /\ ack' = NoResponse
    /\ response' = NoResponse
    /\ io' = <<>>
    /\ close_invoked' = FALSE
    /\ close_result' = FALSE

\* the operation is under way
Running ==
    /\ outcome' = "running"
    /\ retval' = JNone

\* the operation ends
Finish(out, val) ==
    /\ pc' = "idle"
    /\ outcome' = out
    /\ retval' = val

\* the exception e leaves the operation
Raise(e) == Finish("raised", Exc(e))

\* Mutant of EnterOpenChannel: a new channel takes the current value of the
\* request id counter, which is left as it is.
EnterOpenChannelKeepsId(name, cont) ==
    IF name \in DOMAIN open_channels
    THEN /\ channel' = open_channels[name]
         /\ request_id' = request_id
         /\ opened' = TRUE
         /\ pc' = cont
    ELSE /\ request_id' = request_id
         /\ channel' = [channel |-> name, id |-> request_id, sequence |-> 1]
         /\ opened' = FALSE
         /\ pc' = "open_write"

\* Mutant of EnterOpenChannel: the request id counter advances before the
\* registry is looked up.
EnterOpenChannelCounts(name, cont) ==
    IF name \in DOMAIN open_channels
    THEN /\ channel' = open_channels[name]
         /\ request_id' = request_id + 1
         /\ opened' = TRUE
         /\ pc' = cont
    ELSE /\ request_id' = request_id + 1
         /\ channel' = [channel |-> name, id |-> request_id + 1, sequence |-> 1]
         /\ opened' = FALSE
         /\ pc' = "open_write"

\* Mutant of EnterOpenChannel: the registry is not consulted, every call
\* opens the channel anew.
EnterOpenChannelAlways(name, cont) ==
    /\ request_id' = request_id + 1
    /\ channel' = [channel |-> name, id |-> request_id + 1, sequence |-> 1]
    /\ opened' = FALSE
    /\ pc' = "open_write"

\* _open_channel up to its first await
EnterOpenChannel(name, cont) ==
    IF name \in DOMAIN open_channels
    THEN /\ channel' = open_channels[name]
         /\ request_id' = request_id
         /\ opened' = TRUE
         /\ pc' = cont
    ELSE /\ request_id' = request_id + 1
         /\ channel' = [channel |-> name, id |-> request_id + 1, sequence |-> 1]
         /\ opened' = FALSE
         /\ pc' = "open_write"

\* where the operation continues after _open_channel returned
AfterOpen ==
    CASE op = "authenticate" -> "auth_write"
      [] op \in {"get_config", "list_doors"} -> "cfg_write"
      [] OTHER -> "init_write"

\* additional_data of the operation's _open_channel call
AdditionalData == IF op = "open_door" THEN AptAddress(TheVip) ELSE None

\* Mutant of EnterClose: the sequence is not advanced.
EnterCloseSameSequence ==
    /\ channel' = channel
    /\ open_channels' = open_channels
    /\ close_invoked' = TRUE
    /\ pc' = "close_write"

\* _close_channel up to its first await: channel_data.sequence += 1.
\* The registry entry is the same ChannelData object.
EnterClose ==
    /\ channel' = [channel EXCEPT !.sequence = @ + 1]
    /\ open_channels' =
          IF channel.channel \in DOMAIN open_channels
          THEN [open_channels EXCEPT ![channel.channel].sequence = @ + 1]
          ELSE open_channels
    /\ close_invoked' = TRUE
    /\ pc' = "close_write"

\* self.open_channels.pop(name, None)
Pop(name) == [n \in DOMAIN open_channels \ {name} |-> open_channels[n]]

(***************************************************************************)
(* connect and shutdown.                                                   *)
(***************************************************************************)
\* Mutant of Connect: the registry is not emptied.
ConnectKeepsChannels ==
    /\ Begin("connect", JNone)
    /\ connected' = TRUE
    /\ link' = "up"
    /\ open_channels' = open_channels
    /\ Finish("returned", JNone)
    /\ mock' = [mock EXCEPT !.outbox = <<>>, !.closed = FALSE]
    /\ UNCHANGED <<codec, reader, coordinator, request_id, channel, opened>>

\* connect, on a client that has no socket or that still has one: the new
\* reader and writer replace the old
Connect ==
    /\ Begin("connect", JNone)
    /\ connected' = TRUE
    /\ link' = "up"
    /\ open_channels' = NoChannels
    /\ Finish("returned", JNone)
    /\ mock' = [mock EXCEPT !.outbox = <<>>, !.closed = FALSE]
    /\ UNCHANGED <<codec, reader, coordinator, request_id, channel, opened>>

\* open_connection fails: reader, writer and registry stay as they were
ConnectFail ==
    /\ Begin("connect", JNone)
    /\ Raise("ConnectionError")
    /\ UNCHANGED <<codec, reader, coordinator, connected, link, open_channels, request_id, channel, opened, mock>>

Shutdown ==
    /\ pc = "idle"
    /\ connected
    /\ connected' = FALSE
    /\ link' = "down"
    /\ open_channels' = NoChannels
    /\ op' = "shutdown"
    /\ outcome' = "returned"
    /\ retval' = JNone
    /\ UNCHANGED <<codec, reader, coordinator, request_id, pc, arg, channel, ack, response, io, calls, opened,
                   close_invoked, close_result, mock>>

(***************************************************************************)
(* _open_channel.                                                          *)
(***************************************************************************)
OpenChannelWrite ==
    /\ pc = "open_write"
    /\ \/ /\ Write("open",
                     create_command_packet(request_id, 1, COMMAND,
                                           channel.channel, AdditionalData))
          /\ pc' = "open_read"
          /\ UNCHANGED <<outcome, retval>>
       \/ /\ FailWrite("open")
          /\ Raise("ConnectionResetError")
    /\ UNCHANGED <<codec, reader, coordinator, connected, link, open_channels, request_id, op, arg, channel,
                   ack, response, calls, opened, close_invoked, close_result>>

\* the test of _open_channel on the response it read
OpenAccepted(r) == r.type # "none" /\ r.type = "binary" /\ r.sequence = 2

\* the id of the channel after the acknowledgment r
AdoptedId(r, id) ==
    IF r.has_channel_id /\ Truthy(r.channel_id) THEN r.channel_id[1] ELSE id

\* Mutant of OpenChannelRead: the channel is registered as soon as a frame was
\* read, before the frame is tested.
OpenChannelReadRegistersFirst ==
    /\ pc = "open_read"
    /\ \E s \in ReadInputs :
         LET r == read_response(s) IN
         /\ Received(r)
         /\ IF r.type = "error"
            THEN /\ io' = Append(io, DidRead("open", "error"))
                 /\ Raise(r.error)
                 /\ UNCHANGED <<open_channels, channel, opened, ack>>
            ELSE /\ io' = Append(io, DidRead("open", "ok"))
                 /\ ack' = r
                 /\ open_channels' = (channel.channel :> channel) @@ open_channels
                 /\ IF OpenAccepted(r)
                    THEN /\ channel' = [channel EXCEPT
                                           !.sequence = r.sequence,
                                           !.id = AdoptedId(r, channel.id)]
                         /\ opened' = TRUE
                         /\ pc' = AfterOpen
                         /\ UNCHANGED <<outcome, retval>>
                    ELSE /\ Raise("Exception")
                         /\ UNCHANGED <<channel, opened>>
    /\ UNCHANGED <<codec, reader, coordinator, connected, request_id, op, arg, response, calls,
                   close_invoked, close_result>>

OpenChannelRead ==
    /\ pc = "open_read"
    /\ \E s \in ReadInputs :
         LET r == read_response(s) IN
         /\ Received(r)
         /\ IF r.type = "error"
            THEN /\ io' = Append(io, DidRead("open", "error"))
                 /\ Raise(r.error)
                 /\ UNCHANGED <<open_channels, channel, opened, ack>>
            ELSE /\ io' = Append(io, DidRead("open", "ok"))
                 /\ ack' = r
                 /\ IF OpenAccepted(r)
                    THEN LET cd == [channel EXCEPT
                                       !.sequence = r.sequence,
                                       !.id = AdoptedId(r, channel.id)]
                         IN  /\ channel' = cd
                             /\ open_channels' = (cd.channel :> cd) @@ open_channels
                             /\ opened' = TRUE
                             /\ pc' = AfterOpen
                             /\ UNCHANGED <<outcome, retval>>
                    ELSE /\ Raise("Exception")
                         /\ UNCHANGED <<open_channels, channel, opened>>
    /\ UNCHANGED <<codec, reader, coordinator, connected, request_id, op, arg, response, calls,
                   close_invoked, close_result>>

(***************************************************************************)
(* list_doors: the walk over the configuration.                            *)
(***************************************************************************)
KeyVip == <<118, 105, 112>>

KeyUserParameters == <<117, 115, 101, 114, 45, 112, 97, 114, 97, 109, 101, 116, 101, 114, 115>>

KeyOpendoorAddressBook ==
    <<111, 112, 101, 110, 100, 111, 111, 114, 45, 97, 100, 100, 114, 101,
      115, 115, 45, 98, 111, 111, 107>>

EmptyDict == [t |-> "obj", members |-> <<>>]

EmptyList == [t |-> "arr", items |-> <<>>]

\* value.get(key, default): only a dict has get
GetOrAttributeError(value, key, default) ==
    IF value.t = "exc" THEN value
    ELSE IF value.t = "obj" THEN DictGet(value, key, default)
    ELSE Exc("AttributeError")

\* Mutant of list_doors: the address book is looked up in user-parameters at
\* the top level of the configuration.
list_doors_top_level(config) ==
    IF config.t = "obj" /\ config.members # <<>> /\ DictHas(config, KeyVip)
    THEN GetOrAttributeError(DictGet(config, KeyUserParameters, EmptyDict),
                             KeyOpendoorAddressBook, EmptyList)
    ELSE EmptyList

\* what list_doors makes of the value get_config returned
list_doors(config) ==
    IF config.t = "obj" /\ config.members # <<>> /\ DictHas(config, KeyVip)
    THEN GetOrAttributeError(
             GetOrAttributeError(DictGet(config, KeyVip, JNone),
                                 KeyUserParameters, EmptyDict),
             KeyOpendoorAddressBook, EmptyList)
    ELSE EmptyList

\* the value the operation returns once the channel is closed: authenticate
\* and get_config return what they hold, list_doors walks the configuration
\* get_config returned
ResultOf(value) == IF op = "list_doors" THEN list_doors(value) ELSE value

(***************************************************************************)
(* _close_channel.                                                         *)
(***************************************************************************)
\* the operation ends after _close_channel returned
ReturnAfterClose(value) ==
    IF value.t = "exc" THEN Raise(value.e) ELSE Finish("returned", value)

CloseWrite ==
    /\ pc = "close_write"
    /\ \/ /\ Write("close",
                     create_command_packet(channel.id, channel.sequence, END,
                                           "", None))
          /\ pc' = "close_read"
          /\ UNCHANGED <<outcome, retval>>
       \/ /\ FailWrite("close")
          /\ IF op = "open_door"
             THEN Finish("returned", JNone)       \* caught by open_door
             ELSE Raise("ConnectionResetError")
    /\ UNCHANGED <<codec, reader, coordinator, connected, link, open_channels, request_id, op, arg, channel,
                   ack, response, calls, opened, close_invoked, close_result>>

\* Mutant of CloseRead: the channel is forgotten only when the close was
\* acknowledged.
CloseReadAckOnly ==
    /\ pc = "close_read"
    /\ \E s \in ReadInputs :
         LET r == read_response(s) IN
         /\ Received(r)
         \* the read is logged with the message type of a control frame
         /\ io' = Append(io, [DidRead("close", IF r.type = "error" THEN "error"
                                                                  ELSE "ok")
                                 EXCEPT !.packet = IF r.type = "binary"
                                                   THEN PackH(r.message_type)
                                                   ELSE <<>>])
         /\ open_channels' = IF r.type = "binary" THEN Pop(channel.channel)
                                                  ELSE open_channels
         /\ close_result' = (r.type = "binary")
         /\ ReturnAfterClose(ResultOf(retval))
    /\ UNCHANGED <<codec, reader, coordinator, connected, request_id, op, arg, channel, ack, response, calls,
                   opened, close_invoked>>

CloseRead ==
    /\ pc = "close_read"
    /\ \E s \in ReadInputs :
         LET r == read_response(s) IN
         /\ Received(r)
         \* the read is logged with the message type of a control frame
         /\ io' = Append(io, [DidRead("close", IF r.type = "error" THEN "error"
                                                                  ELSE "ok")
                                 EXCEPT !.packet = IF r.type = "binary"
                                                   THEN PackH(r.message_type)
                                                   ELSE <<>>])
         /\ open_channels' = Pop(channel.channel)
         /\ close_result' = (r.type = "binary")
         /\ ReturnAfterClose(ResultOf(retval))
    /\ UNCHANGED <<codec, reader, coordinator, connected, request_id, op, arg, channel, ack, response, calls,
                   opened, close_invoked>>

(***************************************************************************)
(* authenticate.                                                           *)
(***************************************************************************)
CallAuthenticate ==
    /\ connected
    /\ \E token \in Tokens : Begin("authenticate", [token |-> token])
    /\ EnterOpenChannel(UAUT, "auth_write")
    /\ Running
    /\ UNCHANGED <<codec, reader, coordinator, connected, link, open_channels, mock>>

\* Mutant of AuthWrite: the access request is not answered by a read; the
\* channel is closed right after it.
AuthWriteNoRead ==
    /\ pc = "auth_write"
    /\ \/ /\ Write("access",
                     create_json_packet(channel.id, AuthJson(arg.token)))
          /\ EnterClose
          /\ UNCHANGED <<outcome, retval>>
       \/ /\ FailWrite("access")
          /\ Raise("ConnectionResetError")
          /\ UNCHANGED <<open_channels, channel, close_invoked>>
    /\ UNCHANGED <<codec, reader, coordinator, connected, link, request_id, op, arg, ack, response, calls,
                   opened, close_result>>

AuthWrite ==
    /\ pc = "auth_write"
    /\ \/ /\ Write("access",
                     create_json_packet(channel.id, AuthJson(arg.token)))
          /\ pc' = "auth_read"
          /\ UNCHANGED <<outcome, retval>>
       \/ /\ FailWrite("access")
          /\ Raise("ConnectionResetError")
    /\ UNCHANGED <<codec, reader, coordinator, connected, link, open_channels, request_id, op, arg, channel,
                   ack, response, calls, opened, close_invoked, close_result>>

\* the code authenticate returns for the response r
AuthCode(r) ==
    IF r.type = "json"
    THEN DictGet(r.data, KeyResponseCode, IntVal(500))
    ELSE IntVal(500)

AuthRead ==
    /\ pc = "auth_read"
    /\ \E s \in ReadInputs :
         LET r == read_response(s) IN
         /\ Received(r)
         /\ IF r.type = "error"
            THEN /\ io' = Append(io, DidRead("access", "error"))
                 /\ Raise(r.error)
                 /\ UNCHANGED <<open_channels, channel, response, close_invoked>>
            ELSE /\ io' = Append(io, DidRead("access", "ok"))
                 /\ response' = r
                 /\ retval' = AuthCode(r)
                 /\ EnterClose
                 /\ UNCHANGED outcome
    /\ UNCHANGED <<codec, reader, coordinator, connected, request_id, op, arg, ack, calls, opened, close_result>>

(***************************************************************************)
(* get_config.                                                             *)
(***************************************************************************)
\* addressbooks = "all"
AddressBooksAll == <<97, 108, 108>>

CallGetConfig ==
    /\ connected
    /\ Begin("get_config", [addressbooks |-> AddressBooksAll])
    /\ EnterOpenChannel(UCFG, "cfg_write")
    /\ Running
    /\ UNCHANGED <<codec, reader, coordinator, connected, link, open_channels, mock>>

ConfigWrite ==
    /\ pc = "cfg_write"
    /\ \/ /\ Write("get-configuration",
                     create_json_packet(channel.id, ConfigJson(arg.addressbooks)))
          /\ pc' = "cfg_read"
          /\ UNCHANGED <<outcome, retval>>
       \/ /\ FailWrite("get-configuration")
          /\ Raise("ConnectionResetError")
    /\ UNCHANGED <<codec, reader, coordinator, connected, link, open_channels, request_id, op, arg, channel,
                   ack, response, calls, opened, close_invoked, close_result>>

ConfigRead ==
    /\ pc = "cfg_read"
    /\ \E s \in ReadInputs :
         LET r == read_response(s) IN
         /\ Received(r)
         /\ IF r.type = "error"
            THEN /\ io' = Append(io, DidRead("get-configuration", "error"))
                 /\ Raise(r.error)
                 /\ UNCHANGED <<open_channels, channel, response, close_invoked>>
            ELSE /\ io' = Append(io, DidRead("get-configuration", "ok"))
                 /\ response' = r
                 /\ retval' = IF r.type = "json" THEN r.data ELSE JNone
                 /\ EnterClose
                 /\ UNCHANGED outcome
    /\ UNCHANGED <<codec, reader, coordinator, connected, request_id, op, arg, ack, calls, opened, close_result>>

(***************************************************************************)
(* list_doors: get_config("all"), then the walk.                           *)
(***************************************************************************)
CallListDoors ==
    /\ connected
    /\ Begin("list_doors", [addressbooks |-> AddressBooksAll])
    /\ EnterOpenChannel(UCFG, "cfg_write")
    /\ Running
    /\ UNCHANGED <<codec, reader, coordinator, connected, link, open_channels, mock>>

(***************************************************************************)
(* open_door and _open_door_init.                                          *)
(***************************************************************************)
CallOpenDoor ==
    /\ connected
    /\ \E door_item \in Doors : Begin("open_door", door_item)
    /\ EnterOpenChannel(CTPP, "door1_open")
    /\ Running
    /\ UNCHANGED <<codec, reader, coordinator, connected, link, open_channels, mock>>

InitWrite ==
    /\ pc = "init_write"
    /\ \/ /\ Write("init",
                     create_binary_packet_from_buffers(channel.id, InitBody(TheVip)))
          /\ pc' = "init_read1"
          /\ UNCHANGED <<outcome, retval>>
       \/ /\ FailWrite("init")
          /\ Raise("ConnectionResetError")
    /\ UNCHANGED <<codec, reader, coordinator, connected, link, open_channels, request_id, op, arg, channel,
                   ack, response, calls, opened, close_invoked, close_result>>

\* Mutant of TimedRead: the TimeoutError of wait_for is not caught.
TimedReadNoCatch(at, next, after) ==
    /\ pc = at
    /\ \/ \E s \in ReadInputs :
            LET r == read_response(s) IN
            /\ Received(r)
            /\ IF r.type = "error"
               THEN /\ io' = Append(io, DidRead(at, "error"))
                    /\ Raise(r.error)
               ELSE /\ io' = Append(io, DidRead(at, "ok"))
                    /\ pc' = next
                    /\ UNCHANGED <<outcome, retval>>
       \/ /\ link # "down"
          /\ ~mock.closed
          /\ io' = Append(io, DidRead(at, "timeout"))
          /\ Raise("TimeoutError")
          /\ UNCHANGED <<link, mock>>
    /\ UNCHANGED <<codec, reader, coordinator, connected, open_channels, request_id, op, arg, channel,
                   ack, response, calls, opened, close_invoked, close_result>>

\* one asyncio.wait_for(self._read_response(), timeout=2.0) at position at;
\* after a response the handshake goes to next, after a timeout to after
TimedRead(at, next, after) ==
    /\ pc = at
    /\ \/ \E s \in ReadInputs :
            LET r == read_response(s) IN
            /\ Received(r)
            /\ IF r.type = "error"
               THEN /\ io' = Append(io, DidRead(at, "error"))
                    /\ Raise(r.error)
               ELSE /\ io' = Append(io, DidRead(at, "ok"))
                    /\ pc' = next
                    /\ UNCHANGED <<outcome, retval>>
       \/ /\ link # "down"
          /\ ~mock.closed
          /\ io' = Append(io, DidRead(at, "timeout"))
          /\ pc' = after
          /\ UNCHANGED <<link, mock, outcome, retval>>
    /\ UNCHANGED <<codec, reader, coordinator, connected, open_channels, request_id, op, arg, channel,
                   ack, response, calls, opened, close_invoked, close_result>>

InitRead ==
    \/ TimedRead("init_read1", "init_read2", "door1_open")
    \/ TimedRead("init_read2", "door1_open", "door1_open")

\* one write of create_door_message(confirm) at position at
DoorMessageWrite(at, confirm, next) ==
    /\ pc = at
    /\ \/ /\ Write(IF confirm THEN "OPEN_DOOR_CONFIRM" ELSE "OPEN_DOOR",
                     create_door_message(channel.id, TheVip, arg, confirm))
          /\ pc' = next
          /\ UNCHANGED <<outcome, retval>>
       \/ /\ FailWrite(at)
          /\ Raise("ConnectionResetError")
    /\ UNCHANGED <<codec, reader, coordinator, connected, link, open_channels, request_id, op, arg, channel,
                   ack, response, calls, opened, close_invoked, close_result>>

\* Mutant of DoorWrite: the first OPEN_DOOR is not followed by its
\* OPEN_DOOR_CONFIRM.
DoorWriteUnconfirmed ==
    \/ DoorMessageWrite("door1_open", FALSE, "dinit_write")
    \/ DoorMessageWrite("door2_open", FALSE, "door2_confirm")

DoorWrite ==
    \/ DoorMessageWrite("door1_open", FALSE, "door1_confirm")
    \/ DoorMessageWrite("door1_confirm", TRUE, "dinit_write")
    \/ DoorMessageWrite("door2_open", FALSE, "door2_confirm")

DoorInitWrite ==
    /\ pc = "dinit_write"
    /\ \/ /\ BytesOk(arg.output_index)
          /\ Write("door_init",
                     create_binary_packet_from_buffers(channel.id,
                                                       DoorInitBody(TheVip, arg)))
          /\ pc' = "dinit_read1"
          /\ UNCHANGED <<outcome, retval>>
       \/ /\ ~BytesOk(arg.output_index)
          /\ Raise("ValueError")
          /\ UNCHANGED <<io, mock>>
       \/ /\ BytesOk(arg.output_index)
          /\ FailWrite("door_init")
          /\ Raise("ConnectionResetError")
    /\ UNCHANGED <<codec, reader, coordinator, connected, link, open_channels, request_id, op, arg, channel,
                   ack, response, calls, opened, close_invoked, close_result>>

DoorInitRead ==
    \/ TimedRead("dinit_read1", "dinit_read2", "door2_open")
    \/ TimedRead("dinit_read2", "door2_open", "door2_open")

\* the last OPEN_DOOR_CONFIRM, followed by the call of _close_channel
DoorFinalWrite ==
    /\ pc = "door2_confirm"
    /\ \/ /\ Write("OPEN_DOOR_CONFIRM",
                     create_door_message(channel.id, TheVip, arg, TRUE))
          /\ EnterClose
          /\ UNCHANGED <<outcome, retval>>
       \/ /\ FailWrite("door2_confirm")
          /\ Raise("ConnectionResetError")
          /\ UNCHANGED <<open_channels, channel, close_invoked>>
    /\ UNCHANGED <<codec, reader, coordinator, connected, link, request_id, op, arg, ack, response, calls,
                   opened, close_result>>

(***************************************************************************)
(* The peer.                                                               *)
(***************************************************************************)
\* the device stops sending; the connection stays open
LinkSilent ==
    /\ connected
    /\ link = "up"
    /\ link' = "silent"
    /\ UNCHANGED <<codec, reader, coordinator, connected, open_channels, request_id, pc, op, arg, channel,
                   ack, response, retval, outcome, io, calls, opened, close_invoked,
                   close_result, mock>>

\* the connection is closed or reset by the peer
LinkDown ==
    /\ connected
    /\ link # "down"
    /\ link' = "down"
    /\ UNCHANGED <<codec, reader, coordinator, connected, open_channels, request_id, pc, op, arg, channel,
                   ack, response, retval, outcome, io, calls, opened, close_invoked,
                   close_result, mock>>

ClientStep ==
    \/ OpenChannelWrite \/ OpenChannelRead
    \/ CloseWrite \/ CloseRead
    \/ AuthWrite \/ AuthRead
    \/ ConfigWrite \/ ConfigRead
    \/ InitWrite \/ InitRead
    \/ DoorWrite \/ DoorInitWrite \/ DoorInitRead \/ DoorFinalWrite

Next ==
    \/ Connect \/ ConnectFail \/ Shutdown
    \/ CallAuthenticate \/ CallGetConfig \/ CallListDoors \/ CallOpenDoor
    \/ ClientStep
    \/ LinkSilent \/ LinkDown

Spec == Init /\ [][Next]_vars

(***************************************************************************)
(* The client against the reference mock server: the server is up, every   *)
(* frame the client writes reaches it, and what the client reads is what   *)
(* the server wrote, in order.                                             *)
(***************************************************************************)
\* values of the request id counter at construction used with the mock
\* server; after 8127 the low byte of the next id is not ASCII
MockStartIds == {8000, 8127}

MockInit ==
    /\ ClientInit
    /\ request_id \in MockStartIds
    /\ mock = MockServer(TRUE)
    /\ codec = NoCodec
    /\ reader = NoReader
    /\ coordinator = NoCoordinator

MockNext ==
    \/ Connect \/ Shutdown
    \/ CallAuthenticate \/ CallGetConfig \/ CallListDoors \/ CallOpenDoor
    \/ ClientStep

MockSpec == MockInit /\ [][MockNext]_vars

(***************************************************************************)
(* The header codec on its own: _create_header applied to a pair, and the  *)
(* header decoded the way _read_response decodes it.                       *)
(***************************************************************************)
\* values of the 16-bit fields: the ends of the range and the byte borders
U16Samples == {0, 1, 255, 256, 257, 32768, 65280, 65535}

\* body_length and request_id as _read_response takes them from a header
decode_header(header) ==
    <<UnpackH(Slice(header, 2, 4)), UnpackH(Slice(header, 4, 6))>>

HeaderInit ==
    /\ ClientInit
    /\ request_id \in StartIds
    /\ mock = MockServer(FALSE)
    /\ codec \in [stage : {"input"}, body_length : U16Samples,
                  request_id : U16Samples, header : {<<>>}, decoded : {<<>>}]
    /\ reader = NoReader
    /\ coordinator = NoCoordinator

CreateHeader ==
    /\ codec.stage = "input"
    /\ codec' = [codec EXCEPT
                    !.stage = "encoded",
                    !.header = create_header(codec.body_length, codec.request_id)]
    /\ UNCHANGED <<ClientVars, reader, coordinator>>

ReadHeader ==
    /\ codec.stage = "encoded"
    /\ codec' = [codec EXCEPT !.stage = "decoded",
                              !.decoded = decode_header(codec.header)]
    /\ UNCHANGED <<ClientVars, reader, coordinator>>

HeaderNext == CreateHeader \/ ReadHeader

HeaderSpec == HeaderInit /\ [][HeaderNext]_vars

(***************************************************************************)
(* _read_response at the level of bytes: the peer's frames arrive in       *)
(* pieces, the peer may close, and each readexactly either has its bytes,  *)
(* meets the end of the stream, or is still waiting when the deadline of   *)
(* asyncio.wait_for passes.                                                *)
(***************************************************************************)
\* a frame of which the peer sent a part before closing
Cuts(f) ==
    { SubSeq(f, 1, n) : n \in {5, HEADER_SIZE, Len(f) - 1} \cap (1 .. Len(f) - 1) }

\* what the peer sends on one connection, and where its frames begin: the
\* frames of the device, and a binary answer whose first eight bytes read
\* as a header announcing two more
ReaderStreams ==
    LET frames ==
            WholeFrames
                \cup { DeviceFrame(258, create_header(2, 258) \o <<9, 9, 9, 9>>) }
    IN  { [stream |-> f, starts |-> {0}] : f \in frames }
        \cup { [stream |-> f \o DeviceFrame(0, PackH(END) \o PackH(3)),
                starts |-> {0, Len(f)}] : f \in frames }
        \cup { [stream |-> c, starts |-> {0}] :
                   c \in UNION { Cuts(f) : f \in frames } }

ReaderInit ==
    /\ ClientInit
    /\ request_id \in StartIds
    /\ mock = MockServer(FALSE)
    /\ codec = NoCodec
    /\ reader \in { [NoReader EXCEPT !.stream = i.stream, !.starts = i.starts] :
                        i \in ReaderStreams }
    /\ coordinator = NoCoordinator

\* bytes in the StreamReader's buffer
Buffered == reader.arrived - reader.consumed

\* the next piece of the stream reaches the buffer: pieces end with a
\* header, with a frame, or where the peer stopped sending
BytesArrive ==
    /\ reader.arrived < Len(reader.stream)
    /\ \E n \in reader.starts \cup { b + HEADER_SIZE : b \in reader.starts }
                  \cup { Len(reader.stream) } :
          /\ n > reader.arrived
          /\ n <= Len(reader.stream)
          /\ reader' = [reader EXCEPT !.arrived = n]
    /\ UNCHANGED <<ClientVars, codec, coordinator>>

\* the end of the stream reaches the StreamReader
PeerCloses ==
    /\ ~reader.closed
    /\ reader.arrived = Len(reader.stream)
    /\ reader' = [reader EXCEPT !.closed = TRUE]
    /\ UNCHANGED <<ClientVars, codec, coordinator>>

\* _read_response is called, under asyncio.wait_for or not
CallReadResponse(timed) ==
    /\ reader.at = "idle"
    /\ reader.reads < MaxReads
    /\ reader' = [reader EXCEPT !.at = "header", !.timed = timed,
                                !.start = reader.consumed,
                                !.body_length = 0, !.request_id = 0,
                                !.outcome = "none", !.result = NoResponse,
                                !.reads = @ + 1]
    /\ UNCHANGED <<ClientVars, codec, coordinator>>

\* the reader after _read_response returned r or raised r.error
ReadFinished(rd, r) ==
    [rd EXCEPT !.at = "idle",
               !.outcome = IF r.type = "error" THEN r.error ELSE "returned",
               !.result = IF r.type = "error" THEN NoResponse ELSE r]

\* readexactly(HEADER_SIZE) has its bytes
ReadExactlyHeader ==
    /\ reader.at = "header"
    /\ Buffered >= HEADER_SIZE
    /\ LET header == SubSeq(reader.stream, reader.consumed + 1,
                            reader.consumed + HEADER_SIZE)
           taken == [reader EXCEPT
                        !.consumed = @ + HEADER_SIZE,
                        !.body_length = UnpackH(Slice(header, 2, 4)),
                        !.request_id = UnpackH(Slice(header, 4, 6))]
       IN  reader' = IF taken.body_length > 0
                     THEN [taken EXCEPT !.at = "body"]
                     ELSE ReadFinished(taken, NoResponse)
    /\ UNCHANGED <<ClientVars, codec, coordinator>>

\* readexactly(body_length) has its bytes, and the body is classified
ReadExactlyBody ==
    /\ reader.at = "body"
    /\ Buffered >= reader.body_length
    /\ reader' = ReadFinished(
                     [reader EXCEPT !.consumed = @ + reader.body_length],
                     ClassifyBody(reader.request_id,
                                  SubSeq(reader.stream, reader.consumed + 1,
                                         reader.consumed + reader.body_length)))
    /\ UNCHANGED <<ClientVars, codec, coordinator>>

\* readexactly(HEADER_SIZE) meets the end of the stream: the buffer is
\* emptied and IncompleteReadError raised
HeaderIncomplete ==
    /\ reader.at = "header"
    /\ Buffered < HEADER_SIZE
    /\ reader.closed
    /\ reader' = ReadFinished([reader EXCEPT !.consumed = reader.arrived],
                              ErrorResponse("IncompleteReadError"))
    /\ UNCHANGED <<ClientVars, codec, coordinator>>

\* readexactly(body_length) meets the end of the stream
BodyIncomplete ==
    /\ reader.at = "body"
    /\ Buffered < reader.body_length
    /\ reader.closed
    /\ reader' = ReadFinished([reader EXCEPT !.consumed = reader.arrived],
                              ErrorResponse("IncompleteReadError"))
    /\ UNCHANGED <<ClientVars, codec, coordinator>>

\* the deadline of asyncio.wait_for passes while a readexactly waits: the
\* read is cancelled and what it consumed stays consumed
WaitForTimeout ==
    /\ reader.timed
    /\ ~reader.closed
    /\ \/ reader.at = "header" /\ Buffered < HEADER_SIZE
       \/ reader.at = "body" /\ Buffered < reader.body_length
    /\ reader' = ReadFinished(reader, ErrorResponse("TimeoutError"))
    /\ UNCHANGED <<ClientVars, codec, coordinator>>

ReaderNext ==
    \/ BytesArrive \/ PeerCloses
    \/ \E timed \in BOOLEAN : CallReadResponse(timed)
    \/ ReadExactlyHeader \/ ReadExactlyBody
    \/ HeaderIncomplete \/ BodyIncomplete
    \/ WaitForTimeout

ReaderSpec == ReaderInit /\ [][ReaderNext]_vars

(***************************************************************************)
(* The coordinator: _async_update_data and async_open_door, each of which  *)
(* constructs its own IconaBridgeClient, connects it, runs its channel     *)
(* operations and shuts it down in its finally clause.  A client is kept   *)
(* as its socket, its channel registry and its request id counter; the     *)
(* frames a socket carried are kept as the set of operations they belong   *)
(* to.                                                                     *)
(***************************************************************************)
\* IconaBridgeClient(self.host)
NewClient(rid) == [socket |-> 0, open_channels |-> {}, request_id |-> rid]

\* an operation that takes the client another operation is running with
InstantiateShared(c, t, rid) ==
    IF \E u \in Tasks : c.task[u].client # 0
    THEN [c EXCEPT !.task[t] =
                      [pc |-> "connect",
                       client |-> c.task[CHOOSE u \in Tasks :
                                             c.task[u].client # 0].client,
                       run |-> @.run + 1,
                       auth_code |-> 0, wrote |-> {}, raised |-> FALSE],
                   !.last = t]
    ELSE [c EXCEPT !.clients = Append(@, NewClient(rid)),
                   !.task[t] = [pc |-> "connect",
                                client |-> Len(c.clients) + 1,
                                run |-> @.run + 1,
                                auth_code |-> 0, wrote |-> {}, raised |-> FALSE],
                   !.last = t]

\* client = IconaBridgeClient(self.host): a new instance, local to the run
Instantiate(c, t, rid) ==
    [c EXCEPT !.clients = Append(@, NewClient(rid)),
              !.task[t] = [pc |-> "connect",
                           client |-> Len(c.clients) + 1,
                           run |-> @.run + 1,
                           auth_code |-> 0, wrote |-> {}, raised |-> FALSE],
              !.last = t]

\* the steps of each operation after connect, in the order of the code
Steps(t) ==
    CASE t = "update" ->
           <<"auth_open", "auth_request", "auth_close",
             "config_open", "config_request", "config_close",
             "store", "finally">>
      [] t = "door" ->
           <<"auth_open", "auth_request", "auth_close", "find_door",
             "door_open", "door_frames", "door_close", "finally">>
      [] t = "list_doors" ->
           <<"auth_open", "auth_request", "auth_close",
             "config_open", "config_request", "config_close", "finally">>
      [] OTHER ->
           <<"auth_open", "auth_request", "auth_close",
             "config_open", "config_request", "config_close", "find_door",
             "door_open", "door_frames", "door_close", "finally">>

\* the channel a step works on
ChannelAt(at) ==
    IF at \in {"auth_open", "auth_request", "auth_close"} THEN "UAUT"
    ELSE IF at \in {"config_open", "config_request", "config_close"} THEN "UCFG"
    ELSE "CTPP"

TaskPc(t) == coordinator.task[t].pc

ClientOf(t) == coordinator.task[t].client

\* the frames of a step on the socket of the operation's client, and the
\* channels the operation has written frames for
Carries(c, t) ==
    LET sock == c.clients[c.task[t].client].socket
    IN  IF sock = 0 THEN c
        ELSE [c EXCEPT !.carried[sock] = @ \cup {<<t, c.task[t].run>>},
                       !.task[t].wrote = @ \cup {ChannelAt(c.task[t].pc)}]

\* an operation without a finally clause: an exception ends it
GoesOnUnprotected(c, t, ok) ==
    [c EXCEPT !.task[t].pc =
                  IF ok
                  THEN Steps(t)[1 + CHOOSE k \in 1 .. Len(Steps(t)) - 1 :
                                        Steps(t)[k] = c.task[t].pc]
                  ELSE "idle",
              !.task[t].raised = @ \/ ~ok,
              !.last = t]

\* the operation goes on with its next step, or an exception takes it to
\* its finally clause
GoesOn(c, t, ok) ==
    [c EXCEPT !.task[t].pc =
                  IF ok
                  THEN Steps(t)[1 + CHOOSE k \in 1 .. Len(Steps(t)) - 1 :
                                        Steps(t)[k] = c.task[t].pc]
                  ELSE "finally",
              !.task[t].raised = @ \/ ~ok,
              !.last = t]

CoordinatorInit ==
    /\ ClientInit
    /\ request_id \in StartIds
    /\ mock = MockServer(FALSE)
    /\ codec = NoCodec
    /\ reader = NoReader
    \* before the first refresh, or after one that stored the configuration
    /\ coordinator \in { [NoCoordinator EXCEPT !.vip_config = d, !.data = d] :
                             d \in BOOLEAN }

CreateClient(t) ==
    /\ TaskPc(t) = "idle"
    /\ coordinator.task[t].run < MaxRuns
    /\ \E rid \in StartIds : coordinator' = Instantiate(coordinator, t, rid)
    /\ UNCHANGED <<ClientVars, codec, reader>>

\* connect: a new socket and an emptied registry, or ConnectionError
TaskConnect(t) ==
    /\ TaskPc(t) = "connect"
    /\ \/ coordinator' =
             [coordinator EXCEPT
                 !.carried = Append(@, {}),
                 !.clients[ClientOf(t)].socket = Len(coordinator.carried) + 1,
                 !.clients[ClientOf(t)].open_channels = {},
                 !.task[t].pc = "auth_open",
                 !.last = t]
       \/ coordinator' = [coordinator EXCEPT !.task[t].pc = "finally",
                                             !.task[t].raised = TRUE,
                                             !.last = t]
    /\ UNCHANGED <<ClientVars, codec, reader>>

\* _open_channel: the counter is raised and the COMMAND written; the
\* channel is registered when it is acknowledged
TaskOpenChannel(t) ==
    /\ TaskPc(t) \in {"auth_open", "config_open", "door_open"}
    /\ \E ok \in BOOLEAN :
          coordinator' =
             GoesOn(Carries([coordinator EXCEPT
                                !.clients[ClientOf(t)].request_id = @ + 1,
                                !.clients[ClientOf(t)].open_channels =
                                    IF ok THEN @ \cup {ChannelAt(TaskPc(t))}
                                    ELSE @],
                            t), t, ok)
    /\ UNCHANGED <<ClientVars, codec, reader>>

\* the request of the channel and its answer, or the door frames; the
\* answer to the access request gives the code authenticate returns
TaskRequest(t) ==
    /\ TaskPc(t) \in {"auth_request", "config_request", "door_frames"}
    /\ \E ok \in BOOLEAN, code \in {200, 401, 500} :
          coordinator' =
             GoesOn(Carries([coordinator EXCEPT
                                !.task[t].auth_code =
                                    IF ok /\ TaskPc(t) = "auth_request"
                                    THEN code ELSE @],
                            t), t, ok)
    /\ UNCHANGED <<ClientVars, codec, reader>>

\* a caller that goes on whatever code authenticate returned
AuthOkAny(code) == TRUE

\* the caller's test of the code authenticate returned
AuthOk(code) == code = 200

\* _close_channel: END is written and the channel leaves the registry
\* unless the write raised; the caller then goes on, or raises for a code
\* other than 200 or a configuration without "vip"
TaskCloseChannel(t) ==
    /\ TaskPc(t) \in {"auth_close", "config_close", "door_close"}
    /\ \E ok \in BOOLEAN, popped \in BOOLEAN :
          /\ ok => popped
          /\ coordinator' =
                GoesOn(Carries([coordinator EXCEPT
                                   !.clients[ClientOf(t)].open_channels =
                                       IF popped
                                       THEN @ \ {ChannelAt(TaskPc(t))}
                                       ELSE @],
                               t), t,
                       ok /\ (TaskPc(t) = "auth_close" =>
                                 AuthOk(coordinator.task[t].auth_code)))
    /\ UNCHANGED <<ClientVars, codec, reader>>

\* self.vip_config = config["vip"], and the returned doors become self.data
StoreConfig ==
    /\ TaskPc("update") = "store"
    /\ coordinator' = GoesOn([coordinator EXCEPT !.vip_config = TRUE,
                                                 !.data = TRUE],
                             "update", TRUE)
    /\ UNCHANGED <<ClientVars, codec, reader>>

\* the door is looked up: by async_open_door in self.data, by open_door in
\* the configuration it fetched
FindDoor(t) ==
    /\ TaskPc(t) = "find_door"
    /\ \E found \in BOOLEAN :
          coordinator' =
             GoesOn(coordinator, t, found /\ (t = "door" => coordinator.data))
    /\ UNCHANGED <<ClientVars, codec, reader>>

\* finally: shutdown closes the socket and empties the registry; the run
\* is over and its client, the method's local variable, released
TaskShutdown(t) ==
    /\ TaskPc(t) = "finally"
    /\ coordinator' =
          [coordinator EXCEPT
              !.clients[ClientOf(t)] = NewClient(0),
              !.task[t].pc = "idle",
              !.task[t].client = 0,
              !.task[t].auth_code = 0,
              !.task[t].wrote = {},
              !.task[t].raised = FALSE,
              !.last = t]
    /\ UNCHANGED <<ClientVars, codec, reader>>

CoordinatorNext ==
    \/ \E t \in Tasks :
          \/ CreateClient(t) \/ TaskConnect(t)
          \/ TaskOpenChannel(t) \/ TaskRequest(t) \/ TaskCloseChannel(t)
          \/ TaskShutdown(t)
    \/ StoreConfig \/ FindDoor("door")

CoordinatorSpec == CoordinatorInit /\ [][CoordinatorNext]_vars

\* one of the four high-level operations on its own: only the first
\* operation that starts ever runs
OperationNext ==
    \/ \E t \in Tasks \cup Functions :
          /\ \A u \in (Tasks \cup Functions) \ {t} : coordinator.task[u].run = 0
          /\ CreateClient(t)
    \/ \E t \in Tasks \cup Functions :
          \/ TaskConnect(t)
          \/ TaskOpenChannel(t) \/ TaskRequest(t) \/ TaskCloseChannel(t)
          \/ TaskShutdown(t) \/ FindDoor(t)
    \/ StoreConfig

OperationSpec == CoordinatorInit /\ [][OperationNext]_vars

(***************************************************************************)
(* Vocabulary of the properties.                                           *)
(***************************************************************************)
\* request_id field of a written packet's header
HeaderRequestId(packet) == UnpackH(Slice(packet, 4, 6))

\* body_length field of a written packet's header
HeaderBodyLength(packet) == UnpackH(Slice(packet, 2, 4))

\* first 16-bit word of a written packet's body
BodyWord(packet) == UnpackH(Slice(packet, 8, 10))

\* io[i] is a packet that went out
IsWrite(i) == io[i].dir = "w" /\ io[i].res = "ok"

\* io[i] is a read at position at that ended as res
IsRead(i, at, res) == io[i] = DidRead(at, res)

\* the operation has read its open acknowledgment (a whole, decodable frame)
AckRead == \E i \in 1..Len(io) : IsRead(i, "open", "ok")

\* the acknowledgment is a BinaryControl COMMAND with sequence 2
IsOpenAck(r) == r.type = "binary" /\ r.message_type = COMMAND /\ r.sequence = 2

\* the last entry of io
LastIo == io[Len(io)]

\* _close_channel ran to its end: the END packet went out and the read after
\* it returned or failed
CloseFinished ==
    /\ pc = "idle"
    /\ close_invoked
    /\ io # <<>>
    /\ LastIo.dir = "r"
    /\ LastIo.at = "close"

\* C1: between a successful _open_channel and the end of the operation the
\* registry holds the entry of the channel (one entry, the ChannelData the
\* operation works with); once _close_channel has written END and read (or
\* failed to read) the frame after it, the registry has no entry for the
\* channel, whatever that frame was.
C1_ChannelLifecycle ==
    /\ (opened /\ outcome = "running")
          => /\ channel.channel \in DOMAIN open_channels
             /\ open_channels[channel.channel] = channel
             /\ Cardinality({n \in DOMAIN open_channels : n = channel.channel}) = 1
    /\ CloseFinished => channel.channel \notin DOMAIN open_channels

\* C1 witness: authenticate opened UAUT by an acknowledgment, the read after
\* END failed, and UAUT is gone from the registry.
C1_Witness ==
    /\ op = "authenticate"
    /\ AckRead
    /\ CloseFinished
    /\ LastIo.res = "error"
    /\ ~close_result
    /\ UAUT \notin DOMAIN open_channels

\* C2: a channel is registered by _open_channel only when the frame read after
\* the COMMAND is a BinaryControl COMMAND with sequence 2; after any other
\* frame the call fails and the channel is not registered.
C2_OpenNeedsCommandAck ==
    AckRead =>
        /\ opened => IsOpenAck(ack)
        /\ ~IsOpenAck(ack) => /\ outcome = "raised"
                              /\ channel.channel \notin DOMAIN open_channels

\* C3: after a successful open whose acknowledgment carries a channel id, the
\* registered channel's id is that id (zero included); without a channel id in
\* the acknowledgment the channel keeps the request id of the open.
C3_AdoptsServerId ==
    (AckRead /\ opened /\ IsOpenAck(ack)) =>
        channel.id = IF ack.channel_id # None THEN ack.channel_id[1] ELSE request_id

\* C4: every JSON request and every door-handshake packet written carries in
\* its header the id of the registered channel (the server-assigned id when
\* the acknowledgment of this operation's open assigned one), and every
\* COMMAND and END packet carries header request_id 0.
C4_RequestIdAddressing ==
    /\ \A i \in 1..Len(io) :
          IsWrite(i) =>
             IF io[i].at \in {"open", "close"}
             THEN /\ HeaderRequestId(io[i].packet) = 0
                  /\ BodyWord(io[i].packet) = (IF io[i].at = "open" THEN COMMAND ELSE END)
             ELSE /\ HeaderRequestId(io[i].packet) = channel.id
                  /\ BodyWord(io[i].packet) \notin {COMMAND, END}
                  /\ (AckRead /\ Truthy(ack.channel_id))
                        => HeaderRequestId(io[i].packet) = ack.channel_id[1]
    /\ (outcome = "running" /\ io # <<>> /\ IsWrite(Len(io))
          /\ LastIo.at \notin {"open", "close"})
          => /\ channel.channel \in DOMAIN open_channels
             /\ open_channels[channel.channel].id = HeaderRequestId(LastIo.packet)

\* C4 witness: a door packet went out on a channel whose acknowledgment
\* assigned an id different from the request id of the open.
C4_Witness ==
    /\ op = "open_door"
    /\ AckRead
    /\ Truthy(ack.channel_id)
    /\ ack.channel_id[1] # request_id
    /\ \E i \in 1..Len(io) :
          /\ IsWrite(i)
          /\ io[i].at = "OPEN_DOOR_CONFIRM"
          /\ HeaderRequestId(io[i].packet) = ack.channel_id[1]

\* a write failed during the operation
SomeWriteFailed == \E i \in 1..Len(io) : io[i].dir = "w" /\ io[i].res = "fail"

\* the packet written at position at went out
WroteAt(at) == \E i \in 1..Len(io) : IsWrite(i) /\ io[i].at = at

\* a read at position at was attempted
ReadAttempted(at) == \E i \in 1..Len(io) : io[i].dir = "r" /\ io[i].at = at

\* C5: once the UAUT channel is open and the access request is written,
\* authenticate returns the response-code of the response frame when that
\* frame is JSON with a response-code field, and returns 500 after every
\* other outcome of the read (other frames, undecodable bodies, a connection
\* closed before a full frame arrived).
C5_AuthenticateResult ==
    (op = "authenticate" /\ pc = "idle" /\ opened /\ WroteAt("access")
       /\ ReadAttempted("access") /\ ~SomeWriteFailed)
    => /\ outcome = "returned"
       /\ retval = IF response.type = "json" /\ DictHas(response.data, KeyResponseCode)
                   THEN DictGet(response.data, KeyResponseCode, IntVal(500))
                   ELSE IntVal(500)

\* C6: whenever authenticate or get_config has finished (returned or raised)
\* after its channel was opened, _close_channel has been called for the
\* channel and the channel is not in the registry.
C6_AlwaysClosed ==
    (op \in {"authenticate", "get_config"} /\ pc = "idle" /\ opened)
    => /\ close_invoked
       /\ channel.channel \notin DOMAIN open_channels

\* io[i] is a door message of type t (OPEN_DOOR or OPEN_DOOR_CONFIRM)
IsDoorMessage(i, t) ==
    /\ IsWrite(i)
    /\ HeaderRequestId(io[i].packet) # 0
    /\ BodyWord(io[i].packet) = t

\* the bytes of a door message after its message type (pattern, addresses)
DoorPayload(packet) == SubSeq(packet, HEADER_SIZE + 3, Len(packet))

\* io[i], io[i+1] are OPEN_DOOR immediately followed by OPEN_DOOR_CONFIRM
\* for the same door on the same channel
IsDoorPair(i) ==
    /\ i + 1 <= Len(io)
    /\ IsDoorMessage(i, OPEN_DOOR)
    /\ IsDoorMessage(i + 1, OPEN_DOOR_CONFIRM)
    /\ DoorPayload(io[i].packet) = DoorPayload(io[i + 1].packet)
    /\ HeaderRequestId(io[i].packet) = HeaderRequestId(io[i + 1].packet)

DoorPairs == {i \in 1..Len(io) : IsDoorPair(i)}

\* C7: a run of open_door that reaches its end (it goes on to close the
\* channel) has written OPEN_DOOR immediately followed by OPEN_DOOR_CONFIRM at
\* least twice, and no run ever writes an OPEN_DOOR_CONFIRM that is not
\* immediately preceded by the OPEN_DOOR for the same door.
C7_DoorPairs ==
    op = "open_door" =>
        /\ close_invoked => Cardinality(DoorPairs) >= 2
        /\ \A i \in 1..Len(io) :
              IsDoorMessage(i, OPEN_DOOR_CONFIRM) => (i > 1 /\ IsDoorPair(i - 1))
        /\ \A i \in 1..Len(io) :
              (IsWrite(i) /\ io[i].at = "OPEN_DOOR_CONFIRM")
                 => IsDoorMessage(i, OPEN_DOOR_CONFIRM)

\* C7 witness: open_door ran to its end with both pairs written around the
\* door-specific init packet.
C7_Witness ==
    /\ op = "open_door"
    /\ pc = "idle"
    /\ outcome = "returned"
    /\ close_invoked
    /\ Cardinality(DoorPairs) = 2
    /\ WroteAt("door_init")

HandshakeReads == {"init_read1", "init_read2", "dinit_read1", "dinit_read2"}

\* every handshake read attempted so far ended in a timeout
OnlyTimeouts ==
    \A i \in 1..Len(io) :
        (io[i].dir = "r" /\ io[i].at \in HandshakeReads) => io[i].res = "timeout"

\* the reads after the channel init packet (when that packet was sent) and
\* after the door-specific init packet were attempted and all timed out
AllHandshakeReadsTimedOut ==
    /\ OnlyTimeouts
    /\ ReadAttempted("dinit_read1")
    /\ WroteAt("init") => ReadAttempted("init_read1")

\* C8: when every handshake read of open_door timed out and every write went
\* out, open_door does not raise; it ends having written the final OPEN_DOOR,
\* OPEN_DOOR_CONFIRM and then an END packet (sequence of CTPP plus one,
\* request_id 0) as its last three packets.
C8_TimeoutsSwallowed ==
    (op = "open_door" /\ AllHandshakeReadsTimedOut /\ ~SomeWriteFailed)
    => /\ outcome # "raised"
       /\ pc = "idle" =>
            LET w == SelectSeq(io, LAMBDA e : e.dir = "w" /\ e.res = "ok")
                n == Len(w)
            IN  /\ n >= 3
                /\ w[n - 2].at = "OPEN_DOOR"
                /\ BodyWord(w[n - 2].packet) = OPEN_DOOR
                /\ w[n - 1].at = "OPEN_DOOR_CONFIRM"
                /\ BodyWord(w[n - 1].packet) = OPEN_DOOR_CONFIRM
                /\ w[n].at = "close"
                /\ BodyWord(w[n].packet) = END
                /\ channel.channel = CTPP

\* C8 witness: open_door returned although the first read after each of the
\* two init packets timed out; the END packet went out.
C8_Witness ==
    /\ op = "open_door"
    /\ pc = "idle"
    /\ outcome = "returned"
    /\ \E i \in 1..Len(io) : IsRead(i, "init_read1", "timeout")
    /\ \E i \in 1..Len(io) : IsRead(i, "dinit_read1", "timeout")
    /\ OnlyTimeouts
    /\ WroteAt("close")

\* C9: once open_door holds a registered CTPP channel, _close_channel has been
\* called for it when open_door finishes, on every path, and CTPP is not in
\* the registry afterwards.
C9_DoorAlwaysClosed ==
    (op = "open_door" /\ pc = "idle" /\ opened)
    => /\ close_invoked
       /\ CTPP \notin DOMAIN open_channels

(***************************************************************************)
(* Progress: the event loop runs the client whenever it can take a step.   *)
(***************************************************************************)
FairSpec == Spec /\ WF_vars(ClientStep)

\* C10: when the device sends nothing after the END packet and the
\* connection stays open, _close_channel still completes (the operation
\* leaves the read after END and the channel leaves the registry).
C10_CloseCompletes ==
    (pc = "close_read" /\ link = "silent") ~> (pc # "close_read" \/ link # "silent")

\* the reads of _open_channel, authenticate and get_config
PlainReads == {"open_read", "auth_read", "cfg_read"}

\* C11: the reads of _open_channel, authenticate and get_config are bounded
\* by a deadline: when the device stops sending while the connection stays
\* open, the operation leaves such a read (with a timeout outcome).
C11_ReadsBounded ==
    (pc \in PlainReads /\ link = "silent") ~> (pc \notin PlainReads \/ link # "silent")

\* C12: when the device has acknowledged the open of CTPP and then sends
\* nothing while the connection stays open, open_door returns to its caller.
C12_OpenDoorReturns ==
    (op = "open_door" /\ opened /\ pc # "idle" /\ link = "silent")
       ~> (pc = "idle" \/ link # "silent")

\* the operations that open a channel
ChannelOps == {"authenticate", "get_config", "list_doors", "open_door"}

\* the operation tried to open its channel and _open_channel failed
OpenFailed ==
    /\ op \in ChannelOps
    /\ pc = "idle"
    /\ \E i \in 1..Len(io) : io[i].at = "open"
    /\ ~opened

\* C13: when the channel open fails inside authenticate, get_config or
\* open_door, the operation ends with an error raised, nothing is written
\* after the COMMAND packet (no request, no init or door packet, no END), and
\* the registry has no entry for the channel.
C13_OpenFailureStops ==
    OpenFailed =>
        /\ outcome = "raised"
        /\ Len(io) <= 2
        /\ \A i \in 1..Len(io) : io[i].at = "open"
        /\ channel.channel \notin DOMAIN open_channels

\* C13 witness: authenticate read a frame after its COMMAND that is no
\* acknowledgment, and ended there.
C13_Witness ==
    /\ op = "authenticate"
    /\ OpenFailed
    /\ AckRead
    /\ ack.type = "json"
    /\ outcome = "raised"

\* C14: a failure of the channel close never replaces the result:
\* authenticate returns the response-code it received, get_config the
\* configuration it received, also when END cannot be written or the read
\* after it fails, and open_door does not raise because of a failed close.
C14_CloseNeverReplaces ==
    /\ (op = "authenticate" /\ pc = "idle" /\ response.type = "json"
          /\ DictHas(response.data, KeyResponseCode))
          => /\ outcome = "returned"
             /\ retval = DictGet(response.data, KeyResponseCode, IntVal(500))
    /\ (op = "get_config" /\ pc = "idle" /\ response.type = "json")
          => /\ outcome = "returned"
             /\ retval = response.data
    /\ (op = "open_door" /\ pc = "idle" /\ close_invoked) => outcome # "raised"

\* the channel an operation opens
ChannelOf(o) ==
    CASE o = "authenticate" -> UAUT
      [] o = "open_door" -> CTPP
      [] OTHER -> UCFG

\* a call of an operation whose channel is in the registry already
ReopenStep ==
    /\ pc = "idle"
    /\ pc' # "idle"
    /\ ChannelOf(op') \in DOMAIN open_channels

\* C15: _open_channel for a name that is already registered writes and reads
\* nothing, does not advance the request id counter, returns the registered
\* entry unchanged and leaves the registry unchanged; the registry holds one
\* entry per name, the entry of that name.
C15_ReopenIsNoOp ==
    [][ /\ ReopenStep =>
             /\ request_id' = request_id
             /\ open_channels' = open_channels
             /\ channel' = open_channels[ChannelOf(op')]
             /\ io' = <<>>
             /\ pc' \notin {"open_write", "open_read"}
        /\ \A n \in DOMAIN open_channels' : open_channels'[n].channel = n
      ]_vars

\* C15 witness: authenticate was called while UAUT was registered and goes
\* on with the registered entry, nothing written or read.
C15_Witness ==
    /\ op = "authenticate"
    /\ pc = "auth_write"
    /\ io = <<>>
    /\ opened
    /\ UAUT \in DOMAIN open_channels
    /\ open_channels[UAUT] = channel
    /\ channel.id # request_id

\* io[j] is a write that follows an earlier packet of the same operation
LaterWrite(j) == j > 1 /\ io[j].dir = "w" /\ \E i \in 1..(j - 1) : IsWrite(i)

\* the entry before io[j] is a read that returned a frame
AfterResponse(j) == io[j - 1].dir = "r" /\ io[j - 1].res = "ok"

\* C16 as stated: in every operation, no further frame is written before the
\* response to the previous one has been read.
C16_StrictRequestResponse ==
    \A j \in 1..Len(io) : LaterWrite(j) => AfterResponse(j)

\* C16 amended: in authenticate and get_config (channel open and close
\* included) and for the first packet after the open of CTPP, no further
\* frame is written before a response frame to the previous one has been
\* read; the other packets of open_door are written without such a read.
C16_RequestResponse ==
    \A j \in 1..Len(io) :
        (LaterWrite(j) /\ (op \in {"authenticate", "get_config", "list_doors"} \/ io[j].at = "init"))
           => AfterResponse(j)

\* C16 witness: authenticate wrote COMMAND, the access request and END, each
\* after the read of the frame before it.
C16_Witness ==
    /\ op = "authenticate"
    /\ pc = "idle"
    /\ outcome = "returned"
    /\ Len(io) = 6
    /\ IsWrite(1) /\ IsWrite(3) /\ IsWrite(5)
    /\ AfterResponse(3) /\ AfterResponse(5)

\* C17: once the UCFG channel is open and the get-configuration request is
\* written, get_config returns the decoded object when the response frame is
\* JSON and none after every other outcome of the read (other frames,
\* undecodable bodies, a connection closed before a full frame arrived).
C17_ConfigResult ==
    (op = "get_config" /\ pc = "idle" /\ opened /\ WroteAt("get-configuration")
       /\ ReadAttempted("get-configuration") /\ ~SomeWriteFailed)
    => /\ outcome = "returned"
       /\ retval = IF response.type = "json" THEN response.data ELSE JNone

\* the value under key of a decoded object, none when there is no such value
Segment(value, key) ==
    IF value.t = "obj" /\ DictHas(value, key) THEN DictGet(value, key, JNone)
    ELSE JNone

\* what get_config returned to list_doors
ConfigReturned == IF response.type = "json" THEN response.data ELSE JNone

\* the value at vip / user-parameters / opendoor-address-book
AddressBookOf(config) ==
    Segment(Segment(Segment(config, KeyVip), KeyUserParameters),
            KeyOpendoorAddressBook)

\* C18: once its get_config("all") has returned, list_doors returns the
\* sequence stored at vip / user-parameters / opendoor-address-book of the
\* configuration get_config returned, the same entries in the same order,
\* and the empty sequence when get_config returned none or a segment of the
\* path is absent.
C18_ListDoors ==
    (op = "list_doors" /\ CloseFinished)
    => /\ outcome = "returned"
       /\ retval = IF AddressBookOf(ConfigReturned) = JNone
                   THEN EmptyList
                   ELSE AddressBookOf(ConfigReturned)

\* C18 witness: list_doors returned the two entries of the address book the
\* device sent, first entry first.
C18_Witness ==
    /\ op = "list_doors"
    /\ CloseFinished
    /\ retval.t = "arr"
    /\ Len(retval.items) = 2
    /\ retval.items[1] # retval.items[2]
    /\ retval.items[1] = AddressBookOf(response.data).items[1]

\* the first call after connect
FirstCall == calls = 2

\* C19: against the mock server, connect followed by authenticate(token)
\* returns 200 for the token the server accepts and another code for every
\* other token; every read of the run finds its answer, and afterwards UAUT
\* is closed on both sides (not in the registry of the client, not in the
\* channels of the server).
C19_MockAuthenticate ==
    (op = "authenticate" /\ FirstCall)
    => /\ pc \in {"open_read", "auth_read", "close_read"} => mock.outbox # <<>>
       /\ pc = "idle" =>
            /\ outcome = "returned"
            /\ retval.t = "int"
            /\ (retval.n = 200) <=> (arg.token = mock_token)
            /\ close_result
            /\ UAUT \notin DOMAIN open_channels
            /\ DOMAIN mock.channels = {}
            /\ mock.outbox = <<>>

\* C19 witness: authenticate with another token came back from the mock
\* server with its refusal, UAUT closed on both sides.
C19_Witness ==
    /\ op = "authenticate"
    /\ FirstCall
    /\ pc = "idle"
    /\ arg.token # mock_token
    /\ retval = IntVal(401)
    /\ close_result
    /\ DOMAIN mock.channels = {}

\* C20: for body_length and request_id over the 16-bit range, the header of
\* _create_header decoded as _read_response decodes it gives the same pair
\* back, and the header is 8 bytes: magic 00 06, the two fields, 00 00.
C20_HeaderRoundTrip ==
    /\ codec.stage \in {"encoded", "decoded"} =>
          /\ Len(codec.header) = 8
          /\ SubSeq(codec.header, 1, 2) = <<0, 6>>
          /\ SubSeq(codec.header, 7, 8) = <<0, 0>>
    /\ codec.stage = "decoded" =>
          codec.decoded = <<codec.body_length, codec.request_id>>

\* C20 witness: a pair with different fields, both using the high byte, went
\* through the header and back.
C20_Witness ==
    /\ codec.stage = "decoded"
    /\ codec.body_length = 65535
    /\ codec.request_id = 256
    /\ codec.decoded = <<65535, 256>>

\* io[i] is the COMMAND that opens UAUT with request id 8001 (sequence 1, no
\* additional data)
OpensUaut8001(i) ==
    /\ IsWrite(i)
    /\ io[i].at = "open"
    /\ channel.channel = UAUT
    /\ request_id = 8001

\* 00 06 0c 00 00 00 00 00 cd ab 01 00 08 00 00 00 55 41 55 54 41 1f 00
OpenUautFixture ==
    <<0, 6, 12, 0, 0, 0, 0, 0, 205, 171, 1, 0, 8, 0, 0, 0, 85, 65, 85, 84,
      65, 31, 0>>

\* 00 06 10 00 00 00 00 00 cd ab 01 00 07 00 00 00 55 41 55 54 00 41 1f 00
OpenUautFrame ==
    <<0, 6, 16, 0, 0, 0, 0, 0, 205, 171, 1, 0, 7, 0, 0, 0, 85, 65, 85, 84,
      0, 65, 31, 0>>

\* the header's body_length is the number of bytes after the header
BodyLengthFits(packet) == HeaderBodyLength(packet) = Len(packet) - HEADER_SIZE

C24_FailedCloseRemoves ==
    (pc = "idle" /\ close_invoked /\ io # <<>> /\ LastIo = WriteFailed("close"))
    => channel.channel \notin DOMAIN open_channels

\* an END packet: header with body_length 4 and request_id 0, the END
\* message type, the sequence, nothing else
EndPacket(sequence) == <<0, 6, 4, 0, 0, 0, 0, 0, 239, 1>> \o PackH(sequence)

\* C25: the stored sequence of a channel right after a successful open is 2;
\* _close_channel advances the stored sequence by one and the END packet it
\* writes carries that value (3 after an open with no other close attempt),
\* consists of the END message type and the sequence only, and names no
\* channel.
C25_SequenceAndEnd ==
    [][ /\ (pc = "open_read" /\ opened')
             => /\ channel'.sequence = 2
                /\ open_channels'[channel'.channel].sequence = 2
        /\ (pc # "close_write" /\ pc' = "close_write")
             => /\ channel'.sequence = channel.sequence + 1
                /\ (pc = "open_read" \/ AckRead) => channel'.sequence = 3
        /\ (pc = "close_write" /\ pc' = "close_read")
             => io'[Len(io')] = Wrote("close", EndPacket(channel.sequence))
      ]_vars

\* C25 witness: the END packet of a channel opened by this operation went
\* out with sequence 3.
C25_Witness ==
    /\ pc = "close_read"
    /\ AckRead
    /\ LastIo = Wrote("close", EndPacket(3))
    /\ channel.sequence = 3

\* the request id a COMMAND packet carries after the channel name
CommandRequestId(packet) == UnpackH(Slice(packet, 21, 23))

\* C26: every _open_channel call that writes a COMMAND takes a request id one
\* greater than the previous such call on the client, whether that one
\* succeeded or failed, and the COMMAND carries it; the counter moves at no
\* other step, so no id is used twice, and the first id lies in 8001..9000.
C26_FreshRequestIds ==
    /\ request_id \in 8000..8999
    /\ [][ /\ IF pc = "idle" /\ pc' = "open_write"
               THEN /\ request_id' = request_id + 1
                    /\ channel'.id = request_id'
               ELSE request_id' = request_id
            /\ (pc = "open_write" /\ pc' = "open_read")
                 => CommandRequestId(io'[Len(io')].packet) = request_id
          ]_vars

\* C26 witness: the second COMMAND of a client that started at 8000 went out
\* with request id 8002 after the first open, with 8001, had failed.
C26_Witness ==
    /\ pc = "open_read"
    /\ request_id = 8002
    /\ open_channels = NoChannels
    /\ CommandRequestId(LastIo.packet) = 8002

\* the read at position first timed out as entry i of io and the read at
\* position second was attempted next (or is about to be)
SecondReadFollows(i, first, second) ==
    IsRead(i, first, "timeout")
    => IF i = Len(io) THEN pc = second
       ELSE io[i + 1].dir = "r" /\ io[i + 1].at = second

\* C27: after the channel init packet and after the door-specific init
\* packet open_door attempts two reads, each under its own timeout; a
\* timeout of the first read does not keep the second from being attempted,
\* and no timeout ends the handshake.
C27_TwoReadsEach ==
    /\ \A i \in 1..Len(io) :
          /\ SecondReadFollows(i, "init_read1", "init_read2")
          /\ SecondReadFollows(i, "dinit_read1", "dinit_read2")
    /\ (io # <<>> /\ LastIo.dir = "r" /\ LastIo.res = "timeout") => outcome # "raised"

(***************************************************************************)
(* The reader: what a finished _read_response made of the frame at which   *)
(* it began.                                                               *)
(***************************************************************************)
\* the last _read_response has returned or raised
ReadDone == reader.at = "idle" /\ reader.outcome # "none"

\* the last read began at the first byte of a frame header
ReadFromFrameStart == reader.start \in reader.starts

\* the peer sent the whole header of the frame at which the last read began
FrameHeaderWhole == reader.start + HEADER_SIZE <= Len(reader.stream)

FrameHeader ==
    SubSeq(reader.stream, reader.start + 1, reader.start + HEADER_SIZE)

FrameBodyLength == UnpackH(Slice(FrameHeader, 2, 4))

FrameRequestId == UnpackH(Slice(FrameHeader, 4, 6))

\* the peer sent the whole frame at which the last read began
FrameWhole ==
    /\ FrameHeaderWhole
    /\ reader.start + HEADER_SIZE + FrameBodyLength <= Len(reader.stream)

FrameBody ==
    SubSeq(reader.stream, reader.start + HEADER_SIZE + 1,
           reader.start + HEADER_SIZE + FrameBodyLength)

\* the last read was given a whole frame with a body and was not abandoned
ClassifiedFrame ==
    /\ ReadDone
    /\ ReadFromFrameStart
    /\ FrameWhole
    /\ FrameBodyLength > 0
    /\ reader.outcome # "TimeoutError"

\* C22: a frame with a request id other than 0 whose body does not begin
\* with '{' is returned as binary data carrying the body unchanged, without
\* any decode error; one whose body begins with '{' is returned as JSON or
\* raises the decode error, and is never returned as binary data.
C22_BinaryOrJson ==
    (ClassifiedFrame /\ FrameRequestId # 0) =>
        IF FrameBody[1] # 123
        THEN /\ reader.outcome = "returned"
             /\ reader.result =
                   [NoResponse EXCEPT !.type = "binary_data",
                                      !.request_id = FrameRequestId,
                                      !.data = [t |-> "bytes", b |-> FrameBody]]
        ELSE \/ /\ reader.outcome = "returned"
                /\ reader.result.type = "json"
                /\ reader.result.request_id = FrameRequestId
             \/ /\ reader.outcome = "JSONDecodeError"
                /\ reader.result = NoResponse

C22_Witness ==
    /\ ClassifiedFrame
    /\ FrameRequestId = 258
    /\ FrameBody = <<1, 2>>
    /\ reader.result.type = "binary_data"
    /\ reader.result.data.b = <<1, 2>>

\* C28: a read that returns from a frame with a body returns one of the
\* three kinds of message, and a frame with request id 0 and at least four
\* body bytes is returned as the binary control message carrying the
\* message type and the sequence of its first four bytes, whatever the
\* message type.
C28_ClassifierTotal ==
    ClassifiedFrame =>
        /\ reader.outcome = "returned" =>
              reader.result.type \in {"binary", "json", "binary_data"}
        /\ (FrameRequestId = 0 /\ FrameBodyLength >= 4) =>
              /\ reader.outcome = "returned"
              /\ reader.result.type = "binary"
              /\ reader.result.message_type = UnpackH(Slice(FrameBody, 0, 2))
              /\ reader.result.sequence = UnpackH(Slice(FrameBody, 2, 4))

\* the frame the peer was sending when it closed: the last of the stream,
\* sent in part only
PartialFrameStart == CHOOSE b \in reader.starts : \A c \in reader.starts : c <= b

PartialFrameSent ==
    LET header == SubSeq(reader.stream, PartialFrameStart + 1,
                         PartialFrameStart + HEADER_SIZE)
    IN  \/ Len(reader.stream) < PartialFrameStart + HEADER_SIZE
        \/ Len(reader.stream) <
              PartialFrameStart + HEADER_SIZE + UnpackH(Slice(header, 2, 4))

\* C29: once the peer has closed after a part of a header or a part of a
\* body, a read that takes bytes of that partial frame raises and returns
\* nothing.
C29_PartialFrameFails ==
    (/\ ReadDone
     /\ reader.closed
     /\ PartialFrameSent
     /\ reader.start >= PartialFrameStart
     /\ reader.consumed > reader.start) =>
        /\ reader.outcome \in {"IncompleteReadError", "TimeoutError"}
        /\ reader.result = NoResponse

\* C30: after a read was abandoned by its timeout, the next read on the
\* connection begins at the first byte of a frame header.
C30_TimeoutAtFrameBoundary ==
    (ReadDone /\ reader.outcome = "TimeoutError") =>
        reader.consumed \in reader.starts \cup {Len(reader.stream)}

(***************************************************************************)
(* The coordinator's two operations side by side.                          *)
(***************************************************************************)
\* the operation has a client
HasClient(t) == ClientOf(t) # 0

\* the socket of the operation's client, 0 when it has none
SocketOf(t) ==
    IF HasClient(t) THEN coordinator.clients[ClientOf(t)].socket ELSE 0

\* C23: while both operations run they hold two distinct client instances,
\* and two distinct sockets once connected; every socket carries the frames
\* of one run of one operation only; and no step of one operation changes
\* the socket, the registry or the counter of the other's client.
C23_SeparateClients ==
    /\ [](\A t \in Tasks, u \in Tasks :
             (t # u /\ HasClient(t) /\ HasClient(u)) =>
                 /\ ClientOf(t) # ClientOf(u)
                 /\ SocketOf(t) # 0 => SocketOf(t) # SocketOf(u))
    /\ [](\A k \in 1 .. Len(coordinator.carried) :
             Cardinality(coordinator.carried[k]) <= 1)
    /\ [][\A t \in Tasks, u \in Tasks :
             (t # u /\ coordinator'.last = t /\ HasClient(u)) =>
                 coordinator'.clients[ClientOf(u)] =
                     coordinator.clients[ClientOf(u)]]_vars

C23_Witness ==
    /\ TaskPc("update") = "config_request"
    /\ TaskPc("door") = "door_frames"
    /\ SocketOf("update") # 0
    /\ SocketOf("door") # 0
    /\ coordinator.carried[SocketOf("update")] # {}
    /\ coordinator.carried[SocketOf("door")] # {}
    /\ coordinator.last = "door"

(***************************************************************************)
(* Frames left unread on the connection.                                   *)
(***************************************************************************)
\* C31: when _open_channel reads its acknowledgment, the only frame waiting
\* on the connection is the server's reply to the COMMAND this call wrote:
\* no frame of an earlier exchange stands before it.
C31_AckIsReplyToCommand ==
    (pc = "open_read" /\ mock.outbox # <<>>) =>
        /\ Len(mock.outbox) = 1
        /\ read_response(Head(mock.outbox)).type = "binary"
        /\ read_response(Head(mock.outbox)).message_type = COMMAND

\* C32: _close_channel returns true exactly when the frame it read after
\* the END packet is the binary control frame of type END; a COMMAND frame,
\* any other frame and a read error make it return false.
C32_TrueOnlyForEndAck ==
    (pc = "idle" /\ close_invoked /\ io # <<>>
        /\ LastIo.dir = "r" /\ LastIo.at = "close") =>
        (close_result <=> (LastIo.res = "ok" /\ LastIo.packet = PackH(END)))

(***************************************************************************)
(* The frames of one open_door.                                            *)
(***************************************************************************)
\* the packets the operation wrote, in order
Written == SelectSeq(io, LAMBDA e : e.dir = "w")

\* the operation met no error: every write went out, no read raised
NoErrorMet == \A i \in 1..Len(io) : io[i].res \notin {"fail", "error"}

\* open_door has returned, having begun by opening CTPP
OpenDoorRanFromInit ==
    /\ op = "open_door"
    /\ pc = "idle"
    /\ outcome = "returned"
    /\ io # <<>>
    /\ io[1].at = "open"

\* C33: an open_door that finds no CTPP channel registered and meets no error
\* writes, in this order and nothing else: the COMMAND opening CTPP with the
\* apartment address as additional data, the channel init packet, OPEN_DOOR,
\* OPEN_DOOR_CONFIRM, the door-specific init packet, OPEN_DOOR,
\* OPEN_DOOR_CONFIRM and END; nothing is read between the last
\* OPEN_DOOR_CONFIRM and the END, and the END is the last packet written.
C33_OpenDoorFrames ==
    (OpenDoorRanFromInit /\ NoErrorMet) =>
        /\ [k \in 1..Len(Written) |-> Written[k].at] =
              <<"open", "init", "OPEN_DOOR", "OPEN_DOOR_CONFIRM", "door_init",
                "OPEN_DOOR", "OPEN_DOOR_CONFIRM", "close">>
        /\ [k \in 1..Len(Written) |-> BodyWord(Written[k].packet)] =
              <<COMMAND, OPEN_DOOR_INIT, OPEN_DOOR, OPEN_DOOR_CONFIRM,
                OPEN_DOOR_INIT, OPEN_DOOR, OPEN_DOOR_CONFIRM, END>>
        /\ Written[1].packet =
              create_command_packet(request_id, 1, COMMAND, CTPP,
                                    AptAddress(TheVip))
        /\ \E i \in 1..(Len(io) - 1) :
              /\ io[i] = Written[7]
              /\ io[i + 1] = Written[8]
              /\ \A j \in (i + 2)..Len(io) : io[j].dir = "r"

\* C33 witness: such a run, in which the device answered both init packets
\* and the END.
C33_Witness ==
    /\ OpenDoorRanFromInit
    /\ NoErrorMet
    /\ \E i \in 1..Len(io) : IsRead(i, "init_read2", "ok")
    /\ \E i \in 1..Len(io) : IsRead(i, "dinit_read2", "ok")
    /\ LastIo.dir = "r"
    /\ LastIo.at = "close"
    /\ close_result

\* open_door found CTPP registered: its log does not begin with an open
ReusedChannel == op = "open_door" /\ io # <<>> /\ io[1].at # "open"

\* C34: open_door called with CTPP registered goes straight to its door
\* packets with the registered entry, writes no COMMAND and no channel init
\* packet, and addresses every door packet with that entry's id; called with
\* no CTPP registered it writes one COMMAND for CTPP, before any other packet.
C34_InitOnlyWhenUnregistered ==
    /\ [][(pc = "idle" /\ pc' # "idle" /\ op' = "open_door") =>
             IF CTPP \in DOMAIN open_channels
             THEN pc' = "door1_open" /\ channel' = open_channels[CTPP]
             ELSE pc' = "open_write"]_vars
    /\ [][(ReusedChannel /\ pc' # "idle" /\ pc # "idle") =>
             channel'.id = channel.id]_vars
    /\ [](ReusedChannel =>
             \A i \in 1..Len(io) :
                 IsWrite(i) =>
                     /\ io[i].at \notin {"open", "init"}
                     /\ BodyWord(io[i].packet) # COMMAND
                     /\ io[i].at # "close" =>
                           HeaderRequestId(io[i].packet) = channel.id)
    /\ []((op = "open_door" /\ io # <<>> /\ ~ReusedChannel /\ IsWrite(1)) =>
             /\ io[1].packet =
                   create_command_packet(request_id, 1, COMMAND, CTPP,
                                         AptAddress(TheVip))
             /\ \A i \in 2..Len(io) :
                   IsWrite(i) => BodyWord(io[i].packet) # COMMAND)

\* C34 witness: an open_door that found CTPP registered has written its door
\* packets and the END.
C34_Witness ==
    /\ ReusedChannel
    /\ pc = "idle"
    /\ outcome = "returned"
    /\ ~SomeWriteFailed
    /\ io[1].at = "OPEN_DOOR"
    /\ WroteAt("door_init")
    /\ WroteAt("close")

(***************************************************************************)
(* The registry across socket sessions.                                    *)
(***************************************************************************)
\* the step is a call of connect
ConnectStep == pc = "idle" /\ calls' = calls + 1 /\ op' = "connect"

Operations == Tasks \cup Functions

\* C36: an operation has written frames for UCFG or CTPP on its connection
\* only if authenticate returned 200 on it, and after any other code the
\* operation is in its finally clause with an exception raised.
C36_AuthenticatedFirst ==
    \A t \in Operations :
        /\ (coordinator.task[t].wrote \cap {"UCFG", "CTPP"} # {}) =>
              coordinator.task[t].auth_code = 200
        /\ (coordinator.task[t].auth_code \notin {0, 200}
               /\ TaskPc(t) # "auth_close") =>
              /\ TaskPc(t) = "finally"
              /\ coordinator.task[t].raised
              /\ coordinator.task[t].wrote = {"UAUT"}

\* C36 witness: the module-level open_door has written its door frames after
\* authenticate returned 200.
C36_Witness ==
    /\ TaskPc("open_door") = "door_close"
    /\ coordinator.task["open_door"].auth_code = 200
    /\ coordinator.task["open_door"].wrote = {"UAUT", "UCFG", "CTPP"}

\* C37: an operation finishes only through its finally clause, whose
\* shutdown leaves the client it created without socket and with an empty
\* registry; an exception raised anywhere in the operation takes it there.
C37_ShutdownOnEveryPath ==
    /\ [][\A t \in Operations :
             (TaskPc(t) # "idle" /\ coordinator'.task[t].pc = "idle") =>
                 /\ TaskPc(t) = "finally"
                 /\ coordinator'.clients[ClientOf(t)].socket = 0
                 /\ coordinator'.clients[ClientOf(t)].open_channels = {}]_vars
    /\ [](\A t \in Operations :
             coordinator.task[t].raised => TaskPc(t) = "finally")

\* C37 witness: the coordinator's door opening is over, without door data
\* and so after an exception raised once it had connected, and the socket
\* it opened is closed.
C37_Witness ==
    /\ TaskPc("door") = "idle"
    /\ coordinator.task["door"].run = 1
    /\ coordinator.last = "door"
    /\ Len(coordinator.carried) = 1
    /\ coordinator.carried[1] = {<<"door", 1>>}
    /\ coordinator.clients[1].socket = 0
    /\ ~coordinator.data

(***************************************************************************)
(* The registry across a sequence of calls on one client.                  *)
(***************************************************************************)
\* C38: on a connected client the registry never holds more than one
\* channel, and it is empty whenever no operation is in progress, also after
\* calls that ended with an error.
C38_OneChannelAtMost ==
    connected =>
        /\ Cardinality(DOMAIN open_channels) <= 1
        /\ (pc = "idle" => open_channels = NoChannels)

(***************************************************************************)
(* The output index in the door-specific init packet.                      *)
(***************************************************************************)
\* the four bytes of a door-specific init packet that follow the 8-byte
\* header, the 10 fixed bytes, the null-terminated apartment address and the
\* NULL
IndexField(packet, door_item) ==
    LET first == 8 + 10 + Len(door_item.apt_address) + 1 + 1 + 1
    IN  SubSeq(packet, first, first + 3)

\* C39: when open_door comes to the door-specific init packet, whatever the
\* output index of the door, it writes the packet (or the write itself fails
\* on a broken connection), and the packet written carries the index as its
\* 4-byte little-endian encoding.
C39_IndexLittleEndian ==
    [][(pc = "dinit_write" /\ pc' # "dinit_write") =>
          /\ Len(io') = Len(io) + 1
          /\ io'[Len(io')].dir = "w"
          /\ io'[Len(io')].at = "door_init"
          /\ io'[Len(io')].res # "fail" =>
                 IndexField(io'[Len(io')].packet, arg) = PackI(arg.output_index)]_vars

====
